---------------------------- MODULE Spec2Model ----------------------------
(***************************************************************************)
(* Model of the financial analysis engine of ai-cfo-agent                  *)
(* (src/agents/analysis.py).                                               *)
(*                                                                         *)
(* Money (a Decimal of two places) is an integer number of cents.  A value *)
(* the code rounds to four decimals (churn_rate, gross_margin,             *)
(* revenue_pct) is an integer count of 1e-4 units, rounded as the code     *)
(* rounds it.  A float the code computes by division is kept as an exact   *)
(* fraction [num, den] until the code rounds it; the metric series handed  *)
(* to the two anomaly detectors are in units of 1e-5.  A date is a day     *)
(* number, day 0 being a Monday.  Every number is a 32-bit integer: money  *)
(* beyond about 2.1e9 cents, and with it the range in which the float      *)
(* power of the stress test overflows, lies outside the model.             *)
(*                                                                         *)
(* The module holds one specification per component; each leaves the       *)
(* variables of the other components at their initial value.               *)
(***************************************************************************)
EXTENDS Integers, Sequences, FiniteSets, TLC

VARIABLES
    anomalies,      \* merge: the list handed to merge_and_deduplicate_anomalies
    merged,         \* merge: its result
    remerged,       \* merge: the result of merging `merged` again
    mergePc,        \* merge: "input" | "merged" | "remerged"
    rows,           \* snapshot builder: the transactions handed to it
    snapshots,      \* snapshot builder: the list it returned
    kpiOutcome,     \* snapshot builder: "none" | "returned" | the error raised
    kpiPc,          \* snapshot builder: "input" | "done"
    fraudRows,      \* fraud scanner: the transactions handed to it
    generated,      \* fraud scanner: the alerts of the five rules, before dedup
    alerts,         \* fraud scanner: the list it returned
    fraudPc,        \* fraud scanner: "input" | "done"
    custRows,       \* customer profiles: the transactions handed to the aggregator
    profiles,       \* customer profiles: the list it returned
    custPc,         \* customer profiles: "input" | "done"
    history,        \* stress test: the snapshots handed to it, oldest first
    scenarios,      \* stress test: the list it returned
    scenPc,         \* stress test: "input" | "done"
    rawRows,        \* run: the raw_financials rows of the run id, by date
    enabled,        \* run: AnalysisAgent.forecaster.enabled
    forest,         \* run: how IsolationForest scores, "unfitted" before its first fit
    forecastCache,  \* run: Chronos2Forecaster._forecast_cache
    stored,         \* run: the derived entities stored for the run id
    lastRun,        \* run: what the latest AnalysisAgent.run read, computed and returned
    survHistory,    \* survival: the snapshots handed to the simulator, oldest first
    survBlocks,     \* survival: how many times the history was extended
    n_simulations,  \* survival: the number of simulated paths, 0 before it is set
    rngStream,      \* survival: what default_rng(42) yields, one level per path
    today,          \* survival: date.today(), a day number
    survPrev,       \* survival: the call before the latest one
    survLast,       \* survival: the latest call, its locals and the dict it returned
    survPc,         \* survival: "unseeded" | "input" | "done" | "again" | "redone"
    fcLog,          \* forecaster: the forecast_bounds calls made so far, in order
    pathCash,       \* one simulated path: `cash` of the inner loop
    pathWeek,       \* one simulated path: the last `week` the loop has run
    exhausted_at_days, \* one simulated path: <<>> for None, or <<days>>
    pathDays,       \* one simulated path: `days` after the loop, <<>> before
    pathPc,         \* one simulated path: "start" | "loop" | "done"
    txRaw,          \* run, statement by statement: how many raw rows the run id has
    txStored,       \* the committed entities of the run id, per table
    session,        \* the uncommitted deletes and adds of the session
    txPc,           \* the statement of AnalysisAgent.run to execute next, 0 outside a run
    txOutcome,      \* how the latest run ended
    txBefore,       \* the committed entities when the latest run began
    txDeleted,      \* the latest run has executed a delete
    task,           \* the workflow: CFOState.task
    thread,         \* the checkpoint thread of the invocation
    node,           \* the node to execute next, "END" or "raised" outside an invocation
    correction_attempts, \* CFOState.correction_attempts: <<>> when unset, else <<n>>
    needs_correction,    \* CFOState.needs_correction: <<>> when unset, else <<b>>
    status,         \* CFOState.status: <<>> when unset, else <<s>>
    checkpoint,     \* the state the checkpointer holds for the thread of the run id
    passes,         \* correction passes of the invocation
    startedWith,    \* correction_attempts the invocation started with
    steps           \* nodes the invocation has executed

mergeVars == <<anomalies, merged, remerged, mergePc>>

kpiVars == <<rows, snapshots, kpiOutcome, kpiPc>>

fraudVars == <<fraudRows, generated, alerts, fraudPc>>

custVars == <<custRows, profiles, custPc>>

scenVars == <<history, scenarios, scenPc>>

runVars == <<rawRows, enabled, forest, forecastCache, stored, lastRun>>

survVars ==
    <<survHistory, survBlocks, n_simulations, rngStream, today, survPrev, survLast,
      survPc>>

fcVars == <<fcLog>>

pathVars == <<pathCash, pathWeek, exhausted_at_days, pathDays, pathPc>>

txVars == <<txRaw, txStored, session, txPc, txOutcome, txBefore, txDeleted>>

flowVars == <<task, thread, node, correction_attempts, needs_correction, status,
              checkpoint, passes, startedWith, steps>>

vars == <<mergeVars, kpiVars, fraudVars, custVars, scenVars, runVars, survVars, fcVars, pathVars, txVars, flowVars>>

\* What the actions of one component leave alone.
exceptMerge == <<kpiVars, fraudVars, custVars, scenVars, runVars, survVars, fcVars, pathVars, txVars, flowVars>>

exceptKpi == <<mergeVars, fraudVars, custVars, scenVars, runVars, survVars, fcVars, pathVars, txVars, flowVars>>

exceptFraud == <<mergeVars, kpiVars, custVars, scenVars, runVars, survVars, fcVars, pathVars, txVars, flowVars>>

exceptCust == <<mergeVars, kpiVars, fraudVars, scenVars, runVars, survVars, fcVars, pathVars, txVars, flowVars>>

exceptScen == <<mergeVars, kpiVars, fraudVars, custVars, runVars, survVars, fcVars, pathVars, txVars, flowVars>>

exceptRun == <<mergeVars, kpiVars, fraudVars, custVars, scenVars, survVars, fcVars, pathVars, txVars, flowVars>>

exceptSurv == <<mergeVars, kpiVars, fraudVars, custVars, scenVars, runVars, fcVars, pathVars, txVars, flowVars>>

\* The forecaster's calls write the cache, which is one of the run's variables.
exceptForecaster == <<mergeVars, kpiVars, fraudVars, custVars, scenVars, survVars, pathVars, txVars, flowVars>>

exceptPath == <<mergeVars, kpiVars, fraudVars, custVars, scenVars, runVars, survVars, fcVars, txVars, flowVars>>

exceptTx == <<mergeVars, kpiVars, fraudVars, custVars, scenVars, runVars, survVars, fcVars, pathVars, flowVars>>

exceptFlow == <<mergeVars, kpiVars, fraudVars, custVars, scenVars, runVars, survVars, fcVars, pathVars, txVars>>

(***************************************************************************)
(* Generic helpers                                                         *)
(***************************************************************************)
Abs(x) == IF x < 0 THEN -x ELSE x

Max2(a, b) == IF a >= b THEN a ELSE b

Min2(a, b) == IF a <= b THEN a ELSE b

Range(s) == {s[i] : i \in 1..Len(s)}

\* round(num / den, digits) for den > 0, in units of 1/scale: to the nearest,
\* an exact tie to the even neighbour.
RoundRatio(num, den, scale) ==
    LET q == (num * scale) \div den
        r == (num * scale) % den
    IN IF 2 * r > den \/ (2 * r = den /\ q % 2 = 1) THEN q + 1 ELSE q

\* _as_decimal(num / den, scale): the quotient in units of 1/scale, rounded
\* half away from zero (ROUND_HALF_UP).  den # 0.
Quantize(num, den, scale) ==
    LET q == (Abs(num) * scale) \div Abs(den)
        r == (Abs(num) * scale) % Abs(den)
        up == IF 2 * r >= Abs(den) THEN q + 1 ELSE q
    IN IF (num < 0) = (den < 0) THEN up ELSE -up

(***************************************************************************)
(* A float the code computes by division is kept as an exact fraction      *)
(* [num, den], den > 0, in lowest terms; it is rounded where the code      *)
(* rounds it.                                                              *)
(***************************************************************************)
RECURSIVE GCD(_, _)
GCD(a, b) == IF b = 0 THEN a ELSE GCD(b, a % b)

Rat(n, d) ==
    LET g == GCD(Abs(n), Abs(d))
        sgn == IF d < 0 THEN -1 ELSE 1
    IN [num |-> (sgn * n) \div g, den |-> (sgn * d) \div g]

RatInt(n) == [num |-> n, den |-> 1]

RatMul(x, y) ==
    LET g1 == GCD(Abs(x.num), y.den)
        g2 == GCD(Abs(y.num), x.den)
    IN Rat((x.num \div g1) * (y.num \div g2), (x.den \div g2) * (y.den \div g1))

\* x / y for y # 0.
RatDiv(x, y) ==
    RatMul(x, IF y.num < 0 THEN [num |-> -y.den, den |-> -y.num]
              ELSE [num |-> y.den, den |-> y.num])

RatAdd(x, y) ==
    LET g == GCD(x.den, y.den)
    IN Rat(x.num * (y.den \div g) + y.num * (x.den \div g), (x.den \div g) * y.den)

RatSub(x, y) == RatAdd(x, [num |-> -y.num, den |-> y.den])

RatLess(x, y) == x.num * y.den < y.num * x.den

RatMax(x, y) == IF RatLess(x, y) THEN y ELSE x

RatMin(x, y) == IF RatLess(y, x) THEN y ELSE x

RatAbs(x) == [num |-> Abs(x.num), den |-> x.den]

RECURSIVE RatSum(_)
RatSum(xs) == IF xs = <<>> THEN RatInt(0) ELSE RatAdd(Head(xs), RatSum(Tail(xs)))

(***************************************************************************)
(* Anomaly merger: merge_and_deduplicate_anomalies                         *)
(***************************************************************************)
\* Bound: the longest anomaly list handed to the merger.
MaxAnomalies == 3

Severities == {"LOW", "MEDIUM", "HIGH"}

AnomalySources == {"isolation_forest", "chronos2"}

\* actual_value in units of 1e-5: 10001 and 10004 print as the same 4-decimal
\* string, 10006 as the next one.  No value ends in 5, so the float's binary
\* representation never decides the rounding.
MergeActuals == {10001, 10004, 10006}

AnomalyDomain ==
    [metric : {"mrr"}, actual : MergeActuals, severity : Severities,
     source : AnomalySources, description : {"outlier"}]

severity_rank(s) ==
    CASE s = "LOW" -> 1
      [] s = "MEDIUM" -> 2
      [] s = "HIGH" -> 3

\* f"{float(item.actual_value):.4f}": the value printed to four decimals.
ActualKey(a) == (a + 5) \div 10

AnomalyKey(item) == <<item.metric, ActualKey(item.actual), item.description>>

\* The position in `acc` (a dict in insertion order) of the record with this
\* key, 0 if there is none.
KeyIndex(acc, key) ==
    IF \E i \in 1..Len(acc) : AnomalyKey(acc[i]) = key
    THEN CHOOSE i \in 1..Len(acc) : AnomalyKey(acc[i]) = key
    ELSE 0

\* One iteration of the loop over the input list.
MergeStep(acc, item) ==
    LET i == KeyIndex(acc, AnomalyKey(item)) IN
    IF i = 0 THEN Append(acc, item)
    ELSE IF severity_rank(item.severity) > severity_rank(acc[i].severity)
         THEN [acc EXCEPT ![i] = item]
    ELSE IF item.source = "chronos2" /\ acc[i].source # "chronos2"
         THEN [acc EXCEPT ![i] = item]
    ELSE acc

RECURSIVE MergeFrom(_, _)
MergeFrom(acc, items) ==
    IF items = <<>> THEN acc
    ELSE MergeFrom(MergeStep(acc, Head(items)), Tail(items))

Reverse(s) == [i \in 1..Len(s) |-> s[Len(s) + 1 - i]]

\* A mutant of the merger: the kept records are returned newest key first.
MergeNewestFirst(items) == Reverse(MergeFrom(<<>>, items))

merge_and_deduplicate_anomalies(items) == MergeFrom(<<>>, items)

MergeStart ==
    /\ anomalies = <<>>
    /\ merged = <<>>
    /\ remerged = <<>>
    /\ mergePc = "input"

\* A detector appends one record to the list that will be merged.
AddAnomaly ==
    /\ mergePc = "input"
    /\ Len(anomalies) < MaxAnomalies
    /\ \E item \in AnomalyDomain : anomalies' = Append(anomalies, item)
    /\ UNCHANGED <<merged, remerged, mergePc>>
    /\ UNCHANGED exceptMerge

MergeCall ==
    /\ mergePc = "input"
    /\ merged' = merge_and_deduplicate_anomalies(anomalies)
    /\ mergePc' = "merged"
    /\ UNCHANGED <<anomalies, remerged>>
    /\ UNCHANGED exceptMerge

MergeAgain ==
    /\ mergePc = "merged"
    /\ remerged' = merge_and_deduplicate_anomalies(merged)
    /\ mergePc' = "remerged"
    /\ UNCHANGED <<anomalies, merged>>
    /\ UNCHANGED exceptMerge

MergeNext == AddAnomaly \/ MergeCall \/ MergeAgain

(***************************************************************************)
(* Weekly snapshot builder: compute_kpi_snapshots                          *)
(***************************************************************************)
\* Bound: the most transactions handed to the snapshot builder.
MaxRows == 3

\* Day 8 is the Tuesday of one week, day 14 the Monday of the next.
KpiDates == {8, 14}

KpiCategories == {"subscription_revenue", "churn_refund", "salary_expense"}

\* -1.00 and 3.00
KpiAmounts == {-100, 300}

\* The week before (day 1 is its Tuesday) has 300.00 of revenue and a refund
\* of one cent: a churn rate of 1/30000, which the snapshot stores as 0.0000.
SmallRefundRows ==
    { [date |-> 1, category |-> "subscription_revenue", amount |-> 30000,
       customer_id |-> "c1"],
      [date |-> 1, category |-> "churn_refund", amount |-> 1, customer_id |-> "c1"] }

\* Day 13 is the Sunday that ends the week of day 8.
SundayRows ==
    { [date |-> 13, category |-> "subscription_revenue", amount |-> 300,
       customer_id |-> "c1"] }

KpiRowDomain ==
    [date : KpiDates, category : KpiCategories, amount : KpiAmounts,
     customer_id : {"c1"}] \cup SmallRefundRows \cup SundayRows

\* pl.col("date").dt.truncate("1w"): the Monday of the date's week.
WeekStart(d) == d - (d % 7)

RECURSIVE SetToSortedSeq(_)
SetToSortedSeq(S) ==
    IF S = {} THEN <<>>
    ELSE LET m == CHOOSE x \in S : \A y \in S : x <= y
         IN <<m>> \o SetToSortedSeq(S \ {m})

\* A mutant of the frame: the groups are left in the order in which their
\* first row arrives.
RECURSIVE WeeksUnsorted(_)
WeeksUnsorted(rs) ==
    IF rs = <<>> THEN <<>>
    ELSE LET before == WeeksUnsorted(SubSeq(rs, 1, Len(rs) - 1))
             wk == WeekStart(rs[Len(rs)].date)
         IN IF wk \in Range(before) THEN before ELSE Append(before, wk)

\* The weeks of the frame, ascending: group_by("week_start") then sort("date").
WeeksOf(rs) == SetToSortedSeq({WeekStart(rs[i].date) : i \in 1..Len(rs)})

\* The rows of one group of group_by("week_start"), in input order.
WeekGroup(rs, wk) ==
    LET InWeek(r) == WeekStart(r.date) = wk IN SelectSeq(rs, InWeek)

RECURSIVE SumAmounts(_)
SumAmounts(rs) == IF rs = <<>> THEN 0 ELSE Head(rs).amount + SumAmounts(Tail(rs))

\* pl.sum of one category's column within one group.
CategorySum(group, cat) ==
    LET OfCat(r) == r.category = cat IN SumAmounts(SelectSeq(group, OfCat))

\* sub_base: the subscription rows that name a customer.
sub_base(rs) ==
    LET Named(r) == r.category = "subscription_revenue" /\ r.customer_id # ""
    IN SelectSeq(rs, Named)

\* group_by("customer_id") with the minimum week_start of each customer, as
\* the set of <<customer_id, first_week>>.
FirstWeeks(sub) ==
    {<<cid, CHOOSE w \in {WeekStart(sub[i].date) : i \in {k \in 1..Len(sub) : sub[k].customer_id = cid}} :
               \A j \in 1..Len(sub) : sub[j].customer_id = cid => w <= WeekStart(sub[j].date)>> :
        cid \in {sub[i].customer_id : i \in 1..Len(sub)}}

\* new_customer_events of the week wk, null filled with 0.
NewCustomers(first_weeks, wk) == Cardinality({p \in first_weeks : p[2] = wk})

\* active_customer_count of the week wk, null filled with 1.
ActiveCustomers(sub, wk) ==
    LET n == Cardinality({sub[i].customer_id :
                            i \in {k \in 1..Len(sub) : WeekStart(sub[k].date) = wk}})
    IN IF n = 0 THEN 1 ELSE n

\* The inputs of the weekly frame, computed once before the loop: the rows,
\* sub_base, and the first week of every customer.
WeeklyFrame(rs) ==
    LET sub == sub_base(rs)
    IN [rows |-> rs, sub_base |-> sub, first_weeks |-> FirstWeeks(sub)]

\* METRIC_NAMES
METRIC_NAMES == <<"mrr", "arr", "churn_rate", "burn_rate", "gross_margin", "cac", "ltv">>

\* _safe_div(numerator, denominator, default): math.isclose(denominator, 0.0)
\* holds for a denominator of exactly 0 only.
_safe_div(numerator, denominator, default) ==
    IF denominator.num = 0 THEN default ELSE RatDiv(numerator, denominator)

\* _delta(current, previous)
_delta(current, previous) ==
    IF previous.num = 0 THEN RatInt(0)
    ELSE RatDiv(RatSub(current, previous), RatAbs(previous))

\* sum(h["churn_rate"] for h in hist)
RECURSIVE ChurnSum(_)
ChurnSum(hist) ==
    IF hist = <<>> THEN RatInt(0)
    ELSE RatAdd(Head(hist).churn_rate, ChurnSum(Tail(hist)))

\* trailing_churn_weekly: hist holds the metrics of the weeks before.
TrailingChurn(hist, churn_rate) ==
    IF Len(hist) >= 4
    THEN LET last12 == SubSeq(hist, Max2(1, Len(hist) - 11), Len(hist))
         IN RatDiv(ChurnSum(last12), RatInt(Len(last12)))
    ELSE RatMax(churn_rate, Rat(1, 1000))

\* The dict `metrics` of the loop body for the week wk, hist holding the
\* metrics of the weeks before: money in cents, ratios as plain fractions.
WeekMetrics(frame, wk, hist) ==
    LET group == WeekGroup(frame.rows, wk)
        revenue == CategorySum(group, "subscription_revenue")
        churn_abs == Abs(CategorySum(group, "churn_refund"))
        salary == Abs(CategorySum(group, "salary_expense"))
        software == Abs(CategorySum(group, "software_expense"))
        marketing == Abs(CategorySum(group, "marketing_expense"))
        cogs == Abs(CategorySum(group, "cogs"))
        taxes == Abs(CategorySum(group, "tax_payment"))
        new_customers == NewCustomers(frame.first_weeks, wk)
        active_customer_count == Max2(ActiveCustomers(frame.sub_base, wk), 1)
        expenses_total == salary + software + marketing + cogs + taxes
        mrr == Max2(revenue - churn_abs, 0)
        churn_rate == RatMin(_safe_div(RatInt(churn_abs), RatInt(revenue), RatInt(0)),
                             RatInt(1))
        gross_margin == _safe_div(RatInt(revenue - cogs), RatInt(revenue), RatInt(0))
        arpu_weekly == _safe_div(RatInt(revenue), RatInt(active_customer_count), RatInt(0))
        arpu_annual == RatMul(arpu_weekly, RatInt(52))
        annual_churn == RatMax(RatMul(TrailingChurn(hist, churn_rate), RatInt(52)),
                               Rat(5, 100))
    IN [mrr |-> RatInt(mrr),
        arr |-> RatInt(mrr * 12),
        churn_rate |-> churn_rate,
        burn_rate |-> RatInt(Max2(expenses_total - revenue, 0)),
        gross_margin |-> gross_margin,
        cac |-> _safe_div(RatInt(marketing), RatInt(new_customers), RatInt(0)),
        ltv |-> _safe_div(RatMul(arpu_annual, RatMax(gross_margin, Rat(1, 100))),
                          annual_churn, RatInt(0))]

ZeroMetrics == [name \in Range(METRIC_NAMES) |-> RatInt(0)]

\* {name: round(_delta(metrics[name], base[name]), 4)}, in 1e-4 units.
DeltaDict(metrics, base) ==
    [name \in Range(METRIC_NAMES) |->
        LET d == _delta(metrics[name], base[name])
        IN RoundRatio(d.num, d.den, 10000)]

\* The KPISnapshotRecord appended for the week wk: hist holds the metrics
\* of the weeks up to and including this one.
WeekSnapshot(hist, wk) ==
    LET k == Len(hist)
        metrics == hist[k]
        previous == IF k >= 2 THEN hist[k - 1] ELSE ZeroMetrics
        month_back == IF k >= 5 THEN hist[k - 4] ELSE ZeroMetrics
    IN [week_start |-> wk,
        mrr |-> Quantize(metrics.mrr.num, metrics.mrr.den, 1),
        arr |-> Quantize(metrics.arr.num, metrics.arr.den, 1),
        churn_rate |-> Quantize(metrics.churn_rate.num, metrics.churn_rate.den, 10000),
        burn_rate |-> Quantize(metrics.burn_rate.num, metrics.burn_rate.den, 1),
        gross_margin |-> Quantize(metrics.gross_margin.num, metrics.gross_margin.den, 10000),
        cac |-> Quantize(metrics.cac.num, metrics.cac.den, 1),
        ltv |-> Quantize(metrics.ltv.num, metrics.ltv.den, 1),
        wow_delta |-> DeltaDict(metrics, previous),
        mom_delta |-> DeltaDict(metrics, month_back)]

\* The loop over the rows of the weekly frame from week k on; hist and
\* snaps are the two lists it appends to.
RECURSIVE SnapshotLoop(_, _, _, _, _)
SnapshotLoop(frame, weeks, k, hist, snaps) ==
    IF k > Len(weeks) THEN snaps
    ELSE LET grown == Append(hist, WeekMetrics(frame, weeks[k], hist))
         IN SnapshotLoop(frame, weeks, k + 1, grown,
                         Append(snaps, WeekSnapshot(grown, weeks[k])))

compute_kpi_snapshots(rs) ==
    IF rs = <<>> THEN <<>>
    ELSE SnapshotLoop(WeeklyFrame(rs), WeeksOf(rs), 1, <<>>, <<>>)

KpiStart ==
    /\ rows = <<>>
    /\ snapshots = <<>>
    /\ kpiOutcome = "none"
    /\ kpiPc = "input"

\* One more transaction in the list handed to the builder.
AddRow ==
    /\ kpiPc = "input"
    /\ Len(rows) < MaxRows
    /\ \E r \in KpiRowDomain : rows' = Append(rows, r)
    /\ UNCHANGED <<snapshots, kpiOutcome, kpiPc>>
    /\ UNCHANGED exceptKpi

\* compute_kpi_snapshots(rows): an empty frame returns [] and raises nothing.
ComputeKpi ==
    /\ kpiPc = "input"
    /\ snapshots' = compute_kpi_snapshots(rows)
    /\ kpiOutcome' = "returned"
    /\ kpiPc' = "done"
    /\ UNCHANGED rows
    /\ UNCHANGED exceptKpi

KpiNext == AddRow \/ ComputeKpi

(***************************************************************************)
(* Fraud pattern scanner: detect_fraud_patterns                            *)
(***************************************************************************)
\* Bound: the most transactions handed to the fraud scanner.
MaxFraudRows == 3

FraudDates == {1, 8}

FraudCategories == {"marketing_expense", "subscription_revenue", "churn_refund"}

\* 0.00 is divisible by 1000 and below it, 1000.50 is above it and not
\* divisible, -2000.00 is round in absolute value only.
FraudAmounts == {0, 100050, -200000}

\* A second round expense in the week of day 1: 1000.00 on its Wednesday.
SecondRoundRows ==
    { [date |-> 2, category |-> "marketing_expense", amount |-> 100000,
       customer_id |-> "c1"] }

FraudRowDomain ==
    [date : FraudDates, category : FraudCategories, amount : FraudAmounts,
     customer_id : {"c1"}] \cup SecondRoundRows

\* The set the code names EXPENSE_CATS holds the two revenue categories.
EXPENSE_CATS == {"subscription_revenue", "churn_refund"}

\* _week_of(d): the Monday of the week containing d.
_week_of(d) == d - (d % 7)

RECURSIVE SumSeq(_)
SumSeq(s) == IF s = <<>> THEN 0 ELSE Head(s) + SumSeq(Tail(s))

RECURSIVE Concat(_)
Concat(ss) == IF ss = <<>> THEN <<>> ELSE Head(ss) \o Concat(Tail(ss))

\* The distinct elements of a sequence, in order of first appearance (the
\* key order of a dict filled from it).
RECURSIVE DistinctFrom(_, _)
DistinctFrom(seen, s) ==
    IF s = <<>> THEN seen
    ELSE DistinctFrom(IF Head(s) \in Range(seen) THEN seen ELSE Append(seen, Head(s)),
                      Tail(s))

Distinct(s) == DistinctFrom(<<>>, s)

RECURSIVE Insert(_, _)
Insert(sorted, x) ==
    IF sorted = <<>> THEN <<x>>
    ELSE IF x <= Head(sorted) THEN <<x>> \o sorted
    ELSE <<Head(sorted)>> \o Insert(Tail(sorted), x)

RECURSIVE Sorted(_)
Sorted(s) == IF s = <<>> THEN <<>> ELSE Insert(Sorted(Tail(s)), Head(s))

\* Twice statistics.median(s), so that the mean of the two middle values of
\* an even-length list stays an integer.  s is not empty.
Median2(s) ==
    LET t == Sorted(s)
        n == Len(t)
    IN IF n % 2 = 1 THEN 2 * t[(n + 1) \div 2]
       ELSE t[n \div 2] + t[n \div 2 + 1]

\* sorted(weekly.keys())
sorted_weeks(rs) == SetToSortedSeq({_week_of(rs[i].date) : i \in 1..Len(rs)})

\* The rows of one week, in input order.
WeekRows(rs, wk) ==
    LET InWeek(r) == _week_of(r.date) = wk IN SelectSeq(rs, InWeek)

\* weekly[wk].keys(): the week's categories in order of first appearance.
WeekCats(rs, wk) ==
    LET wr == WeekRows(rs, wk)
    IN Distinct([i \in 1..Len(wr) |-> wr[i].category])

\* weekly[wk][cat]: the amounts of one week and category, in input order.
WeekCatAmounts(rs, wk, cat) ==
    LET wr == WeekRows(rs, wk)
        OfCat(r) == r.category = cat
        cr == SelectSeq(wr, OfCat)
    IN [i \in 1..Len(cr) |-> cr[i].amount]

\* cat_weekly.keys(): the categories in order of first appearance over the
\* sorted weeks.
CatOrder(rs) ==
    LET wks == sorted_weeks(rs)
    IN Distinct(Concat([k \in 1..Len(wks) |-> WeekCats(rs, wks[k])]))

\* cat_weekly[cat]: the (week, total) pairs of one category, oldest first.
CatTotals(rs, cat) ==
    LET wks == sorted_weeks(rs)
        Has(wk) == cat \in Range(WeekCats(rs, wk))
        own == SelectSeq(wks, Has)
    IN [k \in 1..Len(own) |->
            [wk |-> own[k], total |-> SumSeq(WeekCatAmounts(rs, own[k], cat))]]

\* A mutant of rule 1: the category of the row is not looked at.
RoundNumberAnyCategory(r) ==
    Abs(r.amount) >= 100000 /\ Abs(r.amount) % 100000 = 0

\* Rule 1: round_number, one candidate per qualifying row.
RoundNumberHit(r) ==
    /\ r.category \notin EXPENSE_CATS
    /\ Abs(r.amount) >= 100000
    /\ Abs(r.amount) % 100000 = 0

Rule1(rs) ==
    LET hits == SelectSeq(rs, RoundNumberHit)
    IN [i \in 1..Len(hits) |->
            [week_start |-> _week_of(hits[i].date),
             category |-> hits[i].category,
             pattern |-> "round_number",
             severity |-> "HIGH",
             amount |-> hits[i].amount,
             description |-> <<Abs(hits[i].amount), hits[i].date>>]]

\* Rule 2: velocity_spike, for one category.
Rule2Cat(rs, cat) ==
    LET totals == CatTotals(rs, cat)
        Lookback(k) ==
            LET from == Max2(1, k - 8)
            IN [j \in 1..(k - from) |-> totals[from + j - 1].total]
        Spike(k) ==
            /\ Len(Lookback(k)) >= 2
            /\ Median2(Lookback(k)) # 0
            /\ 2 * Abs(totals[k].total) > 3 * Abs(Median2(Lookback(k)))
        idx == SetToSortedSeq({k \in 1..Len(totals) : Spike(k)})
    IN IF Len(totals) < 4 THEN <<>>
       ELSE [i \in 1..Len(idx) |->
                [week_start |-> totals[idx[i]].wk,
                 category |-> cat,
                 pattern |-> "velocity_spike",
                 severity |-> "HIGH",
                 amount |-> totals[idx[i]].total,
                 description |-> <<Abs(totals[idx[i]].total),
                                   Abs(Median2(Lookback(idx[i])))>>]]

Rule2(rs) ==
    LET cats == CatOrder(rs)
    IN Concat([c \in 1..Len(cats) |-> Rule2Cat(rs, cats[c])])

\* Rule 3: duplicate_amount, for one week and category.
Rule3WeekCat(rs, wk, cat) ==
    LET amts == WeekCatAmounts(rs, wk, cat)
        Count(a) == Cardinality({i \in 1..Len(amts) : amts[i] = a})
        Twice(a) == Count(a) >= 2
        dups == SelectSeq(Distinct(amts), Twice)
    IN [i \in 1..Len(dups) |->
            [week_start |-> wk,
             category |-> cat,
             pattern |-> "duplicate_amount",
             severity |-> "MEDIUM",
             amount |-> dups[i],
             description |-> <<dups[i], Count(dups[i])>>]]

Rule3(rs) ==
    LET wks == sorted_weeks(rs)
    IN Concat([k \in 1..Len(wks) |->
            LET cats == WeekCats(rs, wks[k])
            IN Concat([c \in 1..Len(cats) |-> Rule3WeekCat(rs, wks[k], cats[c])])])

\* The absolute amounts of a week's rows outside the revenue categories.
WeekExpense(rs, wk) ==
    LET wr == WeekRows(rs, wk)
    IN SumSeq([i \in 1..Len(wr) |->
            IF wr[i].category \in EXPENSE_CATS THEN 0 ELSE Abs(wr[i].amount)])

\* Rule 4: zero_revenue_week.
Rule4(rs) ==
    LET wks == sorted_weeks(rs)
        all_expense_totals == [k \in 1..Len(wks) |-> WeekExpense(rs, wks[k])]
        Flagged(wk) ==
            /\ SumSeq(WeekCatAmounts(rs, wk, "subscription_revenue")) = 0
            /\ 2 * WeekExpense(rs, wk) > Median2(all_expense_totals)
        hit == SelectSeq(wks, Flagged)
    IN IF Len(all_expense_totals) < 4 THEN <<>>
       ELSE [i \in 1..Len(hit) |->
                [week_start |-> hit[i],
                 category |-> "subscription_revenue",
                 pattern |-> "zero_revenue_week",
                 severity |-> "MEDIUM",
                 amount |-> 0,
                 description |-> <<WeekExpense(rs, hit[i]),
                                   Median2(all_expense_totals)>>]]

\* Rule 5 with a ratio of exactly 2.5 flagged as well.
Rule5Inclusive(rs) ==
    LET wks == sorted_weeks(rs)
        Contractor(wk) == Abs(SumSeq(WeekCatAmounts(rs, wk, "contractor_expense")))
        Salary(wk) == Abs(SumSeq(WeekCatAmounts(rs, wk, "salary_expense")))
        Flagged(wk) == Salary(wk) > 0 /\ 2 * Contractor(wk) >= 5 * Salary(wk)
        hit == SelectSeq(wks, Flagged)
    IN [i \in 1..Len(hit) |->
            [week_start |-> hit[i],
             category |-> "contractor_expense",
             pattern |-> "contractor_ratio",
             severity |-> "LOW",
             amount |-> Contractor(hit[i]),
             description |-> <<Contractor(hit[i]), Salary(hit[i])>>]]

\* Rule 5: contractor_ratio.
Rule5(rs) ==
    LET wks == sorted_weeks(rs)
        Contractor(wk) == Abs(SumSeq(WeekCatAmounts(rs, wk, "contractor_expense")))
        Salary(wk) == Abs(SumSeq(WeekCatAmounts(rs, wk, "salary_expense")))
        Flagged(wk) == Salary(wk) > 0 /\ 2 * Contractor(wk) > 5 * Salary(wk)
        hit == SelectSeq(wks, Flagged)
    IN [i \in 1..Len(hit) |->
            [week_start |-> hit[i],
             category |-> "contractor_expense",
             pattern |-> "contractor_ratio",
             severity |-> "LOW",
             amount |-> Contractor(hit[i]),
             description |-> <<Contractor(hit[i]), Salary(hit[i])>>]]

AlertKey(a) == <<a.week_start, a.category, a.pattern>>

\* A mutant of the deduplication: a later alert replaces the one kept for
\* its key.
RECURSIVE DedupeKeepLast(_)
DedupeKeepLast(as) ==
    IF as = <<>> THEN <<>>
    ELSE LET rest == Tail(as)
         IN IF \E i \in 1..Len(rest) : AlertKey(rest[i]) = AlertKey(Head(as))
            THEN DedupeKeepLast(rest)
            ELSE <<Head(as)>> \o DedupeKeepLast(rest)

\* Deduplicate: keep the first occurrence per (week, category, pattern).
RECURSIVE DedupeFrom(_, _)
DedupeFrom(kept, as) ==
    IF as = <<>> THEN kept
    ELSE DedupeFrom(IF \E i \in 1..Len(kept) : AlertKey(kept[i]) = AlertKey(Head(as))
                    THEN kept ELSE Append(kept, Head(as)),
                    Tail(as))

Dedupe(as) == DedupeFrom(<<>>, as)

\* The list `alerts` the five rules fill, in the order they append to it.
FraudCandidates(rs) ==
    Rule1(rs) \o Rule2(rs) \o Rule3(rs) \o Rule4(rs) \o Rule5(rs)

detect_fraud_patterns(rs) == Dedupe(FraudCandidates(rs))

FraudStart ==
    /\ fraudRows = <<>>
    /\ generated = <<>>
    /\ alerts = <<>>
    /\ fraudPc = "input"

\* One more transaction in the list handed to the scanner.
AddFraudRow ==
    /\ fraudPc = "input"
    /\ Len(fraudRows) < MaxFraudRows
    /\ \E r \in FraudRowDomain : fraudRows' = Append(fraudRows, r)
    /\ UNCHANGED <<generated, alerts, fraudPc>>
    /\ UNCHANGED exceptFraud

ScanFraud ==
    /\ fraudPc = "input"
    /\ generated' = FraudCandidates(fraudRows)
    /\ alerts' = Dedupe(generated')
    /\ fraudPc' = "done"
    /\ UNCHANGED fraudRows
    /\ UNCHANGED exceptFraud

FraudNext == AddFraudRow \/ ScanFraud

\* Bound: the most weeks of a ledger handed to the scanner week by week.
MaxFraudWeeks == 5

\* What one week of a ledger holds: marketing of 100.00, of 400.00 (more
\* than three times 100.00), of 0.00, or marketing of 100.00 next to
\* subscription revenue of 500.00.  Only the last one has revenue.
LedgerWeeks ==
    { <<[category |-> "marketing_expense", amount |-> 10000]>>,
      <<[category |-> "marketing_expense", amount |-> 40000]>>,
      <<[category |-> "marketing_expense", amount |-> 0]>>,
      <<[category |-> "subscription_revenue", amount |-> 50000],
        [category |-> "marketing_expense", amount |-> 10000]>> }

\* The rows of one week's entries, dated on the Wednesday of the week after
\* the latest one of `rs`.
NextWeekRows(rs, entries) ==
    LET monday == 7 * Len(sorted_weeks(rs))
    IN [i \in 1..Len(entries) |->
            [date |-> monday + 2, category |-> entries[i].category,
             amount |-> entries[i].amount, customer_id |-> "c1"]]

\* One more week of transactions in the list handed to the scanner.
AddLedgerWeek ==
    /\ fraudPc = "input"
    /\ Len(sorted_weeks(fraudRows)) < MaxFraudWeeks
    /\ \E entries \in LedgerWeeks :
          fraudRows' = fraudRows \o NextWeekRows(fraudRows, entries)
    /\ UNCHANGED <<generated, alerts, fraudPc>>
    /\ UNCHANGED exceptFraud

\* Bound: the most weeks of payroll handed to the scanner week by week.
MaxPayrollWeeks == 2

\* What one week of payroll holds, in whole dollars (their float sums and
\* quotients are exact): contractors 3000.00 and salaries 1000.00;
\* contractors 2500.00, exactly 2.5 times the salaries; contractors and no
\* salary row; a contractor credit of 3000.00; salaries that sum to 0.00;
\* salaries and no contractor row.
PayrollWeeks ==
    { <<[category |-> "contractor_expense", amount |-> 300000],
        [category |-> "salary_expense", amount |-> 100000]>>,
      <<[category |-> "contractor_expense", amount |-> 250000],
        [category |-> "salary_expense", amount |-> 100000]>>,
      <<[category |-> "contractor_expense", amount |-> 300000]>>,
      <<[category |-> "contractor_expense", amount |-> -300000],
        [category |-> "salary_expense", amount |-> 100000]>>,
      <<[category |-> "contractor_expense", amount |-> 300000],
        [category |-> "salary_expense", amount |-> 100000],
        [category |-> "salary_expense", amount |-> -100000]>>,
      <<[category |-> "salary_expense", amount |-> 100000]>> }

\* One more week of payroll in the list handed to the scanner.
AddPayrollWeek ==
    /\ fraudPc = "input"
    /\ Len(sorted_weeks(fraudRows)) < MaxPayrollWeeks
    /\ \E entries \in PayrollWeeks :
          fraudRows' = fraudRows \o NextWeekRows(fraudRows, entries)
    /\ UNCHANGED <<generated, alerts, fraudPc>>
    /\ UNCHANGED exceptFraud

PayrollNext == AddPayrollWeek \/ ScanFraud

FraudWeeksNext == AddLedgerWeek \/ ScanFraud

(***************************************************************************)
(* Customer profile aggregator: compute_customer_profiles                  *)
(***************************************************************************)
\* Bound: the most transactions handed to the aggregator.
MaxCustRows == 3

\* Days 1 and 2 lie in one week, day 8 in the next.
CustDates == {1, 2, 8}

Customers == {"c1", "c2", "c3"}

CustRowDomain ==
    [date : CustDates, category : {"subscription_revenue"},
     amount : {10000, 20000}, customer_id : Customers]
    \cup {[date |-> 1, category |-> "churn_refund", amount |-> -10000, customer_id |-> "c1"],
          [date |-> 1, category |-> "subscription_revenue", amount |-> -10000, customer_id |-> "c3"],
          [date |-> 1, category |-> "subscription_revenue", amount |-> 10000, customer_id |-> ""]}

\* The subscription rows of one customer, in input order.
CustomerSubRows(rs, cid) ==
    LET Mine(r) == r.customer_id = cid /\ r.category = "subscription_revenue"
    IN SelectSeq(rs, Mine)

\* customer_revenue.keys(): the customers in order of their first
\* subscription row; a row without customer_id is skipped.
CustomerOrder(rs) ==
    LET Counted(r) == r.customer_id # "" /\ r.category = "subscription_revenue"
        sub == SelectSeq(rs, Counted)
    IN Distinct([i \in 1..Len(sub) |-> sub[i].customer_id])

customer_revenue(rs, cid) ==
    LET sub == CustomerSubRows(rs, cid)
    IN SumSeq([i \in 1..Len(sub) |-> sub[i].amount])

\* customer_weeks[cid]: the set the loop fills with row.date.
customer_weeks(rs, cid) ==
    LET sub == CustomerSubRows(rs, cid) IN {sub[i].date : i \in 1..Len(sub)}

churned(rs) ==
    {rs[i].customer_id :
        i \in {k \in 1..Len(rs) : rs[k].category = "churn_refund"
                                  /\ rs[k].customer_id # ""}}

\* A mutant of the share: the customer's revenue over its own revenue.
RevenuePctOfSelf(revenue, total_revenue) ==
    IF revenue > 0 THEN RoundRatio(revenue, revenue, 10000) ELSE 0

\* round(revenue / total_revenue, 4) if total_revenue > 0 else 0, in 1e-4 units.
RevenuePct(revenue, total_revenue) ==
    IF total_revenue > 0 THEN RoundRatio(revenue, total_revenue, 10000) ELSE 0

\* The record appended for one customer.
Profile(rs, cid, total_revenue) ==
    LET revenue == customer_revenue(rs, cid)
        dates == customer_weeks(rs, cid)
        weeks_active == Cardinality(dates)
        div == Max2(weeks_active, 1)
    IN [customer_id |-> cid,
        total_revenue |-> revenue,
        weeks_active |-> weeks_active,
        avg_weekly_revenue |-> IF revenue >= 0 THEN RoundRatio(revenue, div, 1)
                               ELSE -RoundRatio(-revenue, div, 1),
        first_seen |-> CHOOSE d \in dates : \A e \in dates : d <= e,
        last_seen |-> CHOOSE d \in dates : \A e \in dates : d >= e,
        churn_flag |-> cid \in churned(rs),
        segment |-> IF revenue > 50000 * div THEN "Enterprise"
                    ELSE IF revenue > 15000 * div THEN "Mid"
                    ELSE "SMB",
        revenue_pct |-> RevenuePct(revenue, total_revenue)]

\* sorted(profiles, key=total_revenue, reverse=True): descending, equal keys
\* in their original order.
RECURSIVE InsertDesc(_, _)
InsertDesc(sorted, x) ==
    IF sorted = <<>> THEN <<x>>
    ELSE IF x.total_revenue > Head(sorted).total_revenue THEN <<x>> \o sorted
    ELSE <<Head(sorted)>> \o InsertDesc(Tail(sorted), x)

RECURSIVE SortedDesc(_)
SortedDesc(s) ==
    IF s = <<>> THEN <<>>
    ELSE InsertDesc(SortedDesc(SubSeq(s, 1, Len(s) - 1)), s[Len(s)])

compute_customer_profiles(rs) ==
    LET order == CustomerOrder(rs)
        total_revenue == SumSeq([i \in 1..Len(order) |-> customer_revenue(rs, order[i])])
    IN SortedDesc([i \in 1..Len(order) |-> Profile(rs, order[i], total_revenue)])

CustStart ==
    /\ custRows = <<>>
    /\ profiles = <<>>
    /\ custPc = "input"

\* One more transaction in the list handed to the aggregator.
AddCustRow ==
    /\ custPc = "input"
    /\ Len(custRows) < MaxCustRows
    /\ \E r \in CustRowDomain : custRows' = Append(custRows, r)
    /\ UNCHANGED <<profiles, custPc>>
    /\ UNCHANGED exceptCust

ComputeProfiles ==
    /\ custPc = "input"
    /\ profiles' = compute_customer_profiles(custRows)
    /\ custPc' = "done"
    /\ UNCHANGED custRows
    /\ UNCHANGED exceptCust

CustNext == AddCustRow \/ ComputeProfiles

(***************************************************************************)
(* Scenario stress tester: compute_scenario_stress_test                    *)
(***************************************************************************)
\* Bound: the most snapshots handed to the stress tester.
MaxHistory == 4

\* 0.00, 0.50, 5.00
ScenMrrs == {0, 50, 500}

\* 0.00, 1.00, 4.00
ScenBurns == {0, 100, 400}

ScenSnapshotDomain == [mrr : ScenMrrs, burn_rate : ScenBurns]

\* max(_to_float(latest.mrr), 1.0), in cents.
ScenLastMrr(snaps) == Max2(snaps[Len(snaps)].mrr, 100)

\* max(_to_float(latest.burn_rate), 0.0)
ScenLastBurn(snaps) == Max2(snaps[Len(snaps)].burn_rate, 0)

\* sum(_to_float(s.burn_rate) for s in snapshots)
TotalBurned(snaps) == SumSeq([i \in 1..Len(snaps) |-> snaps[i].burn_rate])

\* The stress tester's current cash estimate.
ScenCurrentCash(snaps) ==
    LET last_mrr == ScenLastMrr(snaps)
        total_burned == TotalBurned(snaps)
        initial_cash == Max2(last_mrr * 18, total_burned * 2)
    IN Max2(initial_cash - total_burned, last_mrr * 2)

\* mrr_growth_rate as a fraction [num, den], den > 0.  Money is taken in
\* tenths of a cent here, so that the floor of 0.001 on prev_mrr is 1.
MrrGrowthRate(snaps) ==
    LET n == Len(snaps)
        last == ScenLastMrr(snaps) * 10
        Floored(num, den) == IF 20 * num >= -3 * den
                             THEN [num |-> num, den |-> den]
                             ELSE [num |-> -3, den |-> 20]
    IN IF n >= 4
       THEN LET prev == Max2(snaps[n - 3].mrr * 10, 1)
            IN Floored(last - prev, prev * 4)
       ELSE IF n >= 2
       THEN LET prev == Max2(snaps[n - 1].mrr * 10, 1)
            IN Floored(last - prev, prev)
       ELSE [num |-> 1, den |-> 100]

\* A mutant of the parameter table: the burn multipliers of bear and bull
\* are exchanged.
ScenarioParamsSwapped ==
    << [name |-> "bear", mrr_mult |-> 80, burn_mult |-> 85, growth_mult |-> 30],
       [name |-> "base", mrr_mult |-> 100, burn_mult |-> 100, growth_mult |-> 100],
       [name |-> "bull", mrr_mult |-> 120, burn_mult |-> 115, growth_mult |-> 250] >>

\* scenario_params, the multipliers in hundredths.
scenario_params ==
    << [name |-> "bear", mrr_mult |-> 80, burn_mult |-> 115, growth_mult |-> 30],
       [name |-> "base", mrr_mult |-> 100, burn_mult |-> 100, growth_mult |-> 100],
       [name |-> "bull", mrr_mult |-> 120, burn_mult |-> 85, growth_mult |-> 250] >>

\* _months_runway(cash, last_burn * burn_mult), in tenths of a month:
\* 99.0 if the burn is not positive, else round(cash / burn / 4.33, 1).
_months_runway(cash, last_burn, burn_mult) ==
    IF last_burn * burn_mult <= 0 THEN 990
    ELSE RoundRatio(cash * 100000, last_burn * burn_mult * 433, 1)

\* The powers of _projected_mrr_6mo are carried in units of 1e-4, between a
\* lower and an upper bound that enclose the float; a power of 3.0 or more
\* is carried as "3.0 or more".
PowUnit == 10000

PowCap == 30000

\* 1.0 + mrr_growth_rate * growth_mult, as a fraction.
GrowthFactor(g, growth_mult) ==
    Rat(g.den * 100 + g.num * growth_mult, g.den * 100)

FactorBounds(f) ==
    IF f.num >= 3 * f.den THEN [lo |-> PowCap, hi |-> PowCap]
    ELSE [lo |-> (f.num * PowUnit) \div f.den,
          hi |-> (f.num * PowUnit + f.den - 1) \div f.den]

\* The product of two bounded values that are not negative.
TimesBounds(a, b) ==
    [lo |-> Min2(PowCap, (a.lo * b.lo) \div PowUnit),
     hi |-> Min2(PowCap, (a.hi * b.hi + PowUnit - 1) \div PowUnit)]

\* (1.0 + weekly_growth) ** 26, by squaring: 26 = 16 + 8 + 2.
Power26(fb) ==
    LET p2 == TimesBounds(fb, fb)
        p4 == TimesBounds(p2, p2)
        p8 == TimesBounds(p4, p4)
        p16 == TimesBounds(p8, p8)
    IN TimesBounds(TimesBounds(p16, p8), p2)

\* floor(a * b / 1000000) for a, b >= 0, without a product beyond 32 bits.
MillionthsOf(a, b) ==
    ((a \div 1000) * b + ((a % 1000) * b) \div 1000) \div 1000

\* round(last_mrr * mrr_mult * (1.0 + growth * growth_mult) ** 26, 2), in
\* cents: bounds that enclose the rounded value; `capped` when the power is
\* 3.0 or more and the value has no upper bound here.
_projected_mrr_6mo(last_mrr, mrr_mult, g, growth_mult) ==
    LET pw == Power26(FactorBounds(GrowthFactor(g, growth_mult)))
        adj_mrr == last_mrr * mrr_mult
    IN [lo |-> MillionthsOf(adj_mrr, Max2(pw.lo - 1, 0)),
        hi |-> MillionthsOf(adj_mrr, pw.hi + 1) + 1,
        capped |-> pw.hi >= PowCap]

compute_scenario_stress_test(snaps) ==
    IF snaps = <<>> THEN <<>>
    ELSE [k \in 1..Len(scenario_params) |->
            [scenario |-> scenario_params[k].name,
             months_runway |-> _months_runway(ScenCurrentCash(snaps),
                                              ScenLastBurn(snaps),
                                              scenario_params[k].burn_mult),
             projected_mrr_6mo |->
                 _projected_mrr_6mo(ScenLastMrr(snaps), scenario_params[k].mrr_mult,
                                    MrrGrowthRate(snaps),
                                    scenario_params[k].growth_mult)]]

ScenStart ==
    /\ history = <<>>
    /\ scenarios = <<>>
    /\ scenPc = "input"

\* One more weekly snapshot at the end of the history.
AddSnapshot ==
    /\ scenPc = "input"
    /\ Len(history) < MaxHistory
    /\ \E snap \in ScenSnapshotDomain : history' = Append(history, snap)
    /\ UNCHANGED <<scenarios, scenPc>>
    /\ UNCHANGED exceptScen

StressTest ==
    /\ scenPc = "input"
    /\ scenarios' = compute_scenario_stress_test(history)
    /\ scenPc' = "done"
    /\ UNCHANGED history
    /\ UNCHANGED exceptScen

ScenNext == AddSnapshot \/ StressTest

(***************************************************************************)
(* Analysis run: AnalysisAgent.run with the two anomaly detectors          *)
(***************************************************************************)
\* Bound: the most weeks of transactions persisted for the run id.
MaxWeeks == 12

\* The weeks (counted from 0) that may carry a second customer and a salary.
SpikeAt == {8, 11}

\* A week in which customer c1 pays 3.00.
NormalWeek(w) ==
    << [date |-> 7 * w + 1, category |-> "subscription_revenue",
        amount |-> 300, customer_id |-> "c1"] >>

\* The same week with customer c2 charged 3.00 twice on one day and a salary
\* of 15.00 paid.
SpikeWeek(w) ==
    NormalWeek(w) \o
    << [date |-> 7 * w + 3, category |-> "subscription_revenue",
        amount |-> 300, customer_id |-> "c2"],
       [date |-> 7 * w + 3, category |-> "subscription_revenue",
        amount |-> 300, customer_id |-> "c2"],
       [date |-> 7 * w + 4, category |-> "salary_expense",
        amount |-> -1500, customer_id |-> ""] >>

WeekBatches(w) ==
    IF w \in SpikeAt THEN {NormalWeek(w), SpikeWeek(w)} ELSE {NormalWeek(w)}

\* The units of a snapshot field per 1.0: cents for money, 1e-4 for a ratio.
MetricScale(metric) ==
    IF metric \in {"churn_rate", "gross_margin"} THEN 10000 ELSE 100

\* [_to_float(getattr(item, metric)) for item in snapshots], in units of 1e-5
\* so that equal floats of different metrics are equal numbers.
MetricValues(snaps, metric) ==
    [i \in 1..Len(snaps) |-> snaps[i][metric] * (100000 \div MetricScale(metric))]

\* np.allclose(values, values[0]): |v - v0| <= 1e-8 + 1e-5 * |v0|.
AllClose(values) ==
    \A i \in 1..Len(values) :
        Abs(values[i] - values[1]) <= (100 + Abs(values[1])) \div 100000

\* np.quantile(values, tenth / 10) by linear interpolation, as
\* whole + tenths / 10.
Quantile(values, tenth) ==
    LET srt == Sorted(values)
        pos == (Len(values) - 1) * tenth
        lo == pos \div 10 + 1
        hi == Min2(lo + 1, Len(values))
        part == (srt[hi] - srt[lo]) * (pos % 10)
    IN [whole |-> srt[lo] + part \div 10, tenths |-> part % 10]

\* What IsolationForest(contamination=0.05, random_state=42) may answer: the
\* samples labelled -1, each with its anomaly_strength in hundredths.  The
\* library is a fixed function of the series; two such functions are
\* considered, one that labels nothing and one that labels the largest value.
ForestKinds == {"none", "max"}

FirstIndexOf(values, v) ==
    CHOOSE i \in 1..Len(values) :
        values[i] = v /\ \A j \in 1..(i - 1) : values[j] # v

ForestOutliers(kind, values) ==
    LET hi == CHOOSE v \in Range(values) : \A u \in Range(values) : u <= v
    IN IF kind = "max"
       THEN <<[idx |-> FirstIndexOf(values, hi), strength |-> 100]>>
       ELSE <<>>

StrengthSeverity(strength) ==
    IF strength >= 66 THEN "HIGH"
    ELSE IF strength >= 33 THEN "MEDIUM"
    ELSE "LOW"

\* The body of the detector's loop for one metric.
IsolationForestMetric(snaps, metric, kind) ==
    LET values == MetricValues(snaps, metric)
        out == ForestOutliers(kind, values)
    IN IF AllClose(values) THEN <<>>
       ELSE [k \in 1..Len(out) |->
                [metric |-> metric,
                 actual |-> values[out[k].idx],
                 expected_range |-> [low |-> Quantile(values, 1),
                                     median |-> Quantile(values, 5),
                                     high |-> Quantile(values, 9)],
                 severity |-> StrengthSeverity(out[k].strength),
                 source |-> "isolation_forest",
                 description |-> <<"Isolation forest outlier", metric,
                                   snaps[out[k].idx].week_start>>]]

detect_isolation_forest_anomalies(snaps, kind) ==
    IF Len(snaps) < 8 THEN <<>>
    ELSE Concat([m \in 1..Len(METRIC_NAMES) |->
                    IsolationForestMetric(snaps, METRIC_NAMES[m], kind)])

\* The detector fits a forest: some metric passes the allclose test.
FitsForest(snaps) ==
    /\ Len(snaps) >= 8
    /\ \E m \in 1..Len(METRIC_NAMES) : ~AllClose(MetricValues(snaps, METRIC_NAMES[m]))

\* What the Chronos pipeline may do during one run: the metrics whose call
\* raises (none, one, or all when the pipeline cannot be loaded) and the
\* quantiles it predicts for every step of the horizon, in units of 1e-5:
\* a band that every positive value leaves, or one that holds every value.
PipelineDomain ==
    { [fails |-> {}, low |-> 0, median |-> 0, high |-> 0],
      [fails |-> {}, low |-> 0, median |-> 300000, high |-> 2000000000],
      [fails |-> {"arr"}, low |-> 0, median |-> 0, high |-> 0],
      [fails |-> Range(METRIC_NAMES), low |-> 0, median |-> 0, high |-> 0] }

\* No ChronosBounds.
NoBounds == [low |-> <<>>, median |-> <<>>, high |-> <<>>]

\* horizon = min(4, max(2, len(values) // 6))
Horizon(n) == Min2(4, Max2(2, n \div 6))

\* forecast_bounds without the early return on a cached key: every call
\* runs the pipeline and overwrites the entry.
forecast_bounds_uncached(cache, series, horizon, raises, answer) ==
    LET cache_key == <<series, horizon>>
        result == [low |-> [i \in 1..horizon |-> answer.low],
                   median |-> [i \in 1..horizon |-> answer.median],
                   high |-> [i \in 1..horizon |-> answer.high]]
    IN IF raises \/ Len(series) - horizon < 6
       THEN [ok |-> FALSE, bounds |-> NoBounds, cache |-> cache]
       ELSE [ok |-> TRUE, bounds |-> result,
             cache |-> [k \in DOMAIN cache \cup {cache_key} |->
                           IF k = cache_key THEN result ELSE cache[k]]]

\* Chronos2Forecaster.forecast_bounds(series, horizon): a cached answer is
\* returned before the pipeline is touched; a fresh one is cached; a failure
\* raises and caches nothing.
forecast_bounds(cache, series, horizon, raises, answer) ==
    LET cache_key == <<series, horizon>>
        result == [low |-> [i \in 1..horizon |-> answer.low],
                   median |-> [i \in 1..horizon |-> answer.median],
                   high |-> [i \in 1..horizon |-> answer.high]]
    IN IF cache_key \in DOMAIN cache
       THEN [ok |-> TRUE, bounds |-> cache[cache_key], cache |-> cache]
       ELSE IF raises \/ Len(series) - horizon < 6
       THEN [ok |-> FALSE, bounds |-> NoBounds, cache |-> cache]
       ELSE [ok |-> TRUE, bounds |-> result,
             cache |-> [k \in DOMAIN cache \cup {cache_key} |->
                           IF k = cache_key THEN result ELSE cache[k]]]

\* The inner loop over the last `horizon` snapshots of one metric.
ChronosTail(snaps, metric, bounds, horizon) ==
    LET values == MetricValues(snaps, metric)
        base == Len(values) - horizon
        Outside(idx) == values[base + idx] > bounds.high[idx]
                        \/ values[base + idx] < bounds.low[idx]
        hits == SelectSeq([idx \in 1..horizon |-> idx], Outside)
    IN [k \in 1..Len(hits) |->
            [metric |-> metric,
             actual |-> values[base + hits[k]],
             expected_range |-> [low |-> bounds.low[hits[k]],
                                 median |-> bounds.median[hits[k]],
                                 high |-> bounds.high[hits[k]]],
             severity |-> "HIGH",
             source |-> "chronos2",
             description |->
                 <<IF values[base + hits[k]] > bounds.high[hits[k]]
                   THEN "Chronos detected upward spike"
                   ELSE "Chronos detected downward collapse",
                   metric, snaps[base + hits[k]].week_start>>]]

\* A mutant of the failure branch: a failing call discards what the earlier
\* metrics contributed.
OnFailureReturnNothing(st, metric) ==
    [st EXCEPT !.forecasts[metric].outcome = "failed", !.anomalies = <<>>]

\* except Exception: continue
OnForecastFailure(st, metric) ==
    [st EXCEPT !.forecasts[metric].outcome = "failed"]

\* One iteration of the detector's loop over METRIC_NAMES; st carries the
\* cache, the anomalies so far and what became of each metric's forecast.
ChronosStep(snaps, st, metric, answer) ==
    LET values == MetricValues(snaps, metric)
        horizon == Horizon(Len(values))
        call == forecast_bounds(st.cache, values, horizon, metric \in answer.fails, answer)
    IN IF Len(values) <= horizon + 6 THEN st
       ELSE IF ~call.ok THEN OnForecastFailure(st, metric)
       ELSE [cache |-> call.cache,
             anomalies |-> st.anomalies \o ChronosTail(snaps, metric, call.bounds, horizon),
             forecasts |-> [st.forecasts EXCEPT
                              ![metric] = [outcome |-> "forecast",
                                           bounds |-> call.bounds]]]

RECURSIVE ChronosLoop(_, _, _, _)
ChronosLoop(snaps, st, m, answer) ==
    IF m > Len(METRIC_NAMES) THEN st
    ELSE ChronosLoop(snaps, ChronosStep(snaps, st, METRIC_NAMES[m], answer),
                     m + 1, answer)

NoForecasts ==
    [name \in Range(METRIC_NAMES) |-> [outcome |-> "none", bounds |-> NoBounds]]

\* detect_chronos_anomalies(snapshots, run_id, forecaster): the anomalies,
\* the cache it leaves and, per metric, what became of its forecast:
\* "none" (not asked for), "failed" or "forecast" with the bounds used.
detect_chronos_anomalies(snaps, is_enabled, cache, answer) ==
    LET start == [cache |-> cache, anomalies |-> <<>>, forecasts |-> NoForecasts]
    IN IF Len(snaps) < 12 \/ ~is_enabled THEN start
       ELSE ChronosLoop(snaps, start, 1, answer)

\* The survival simulator's current cash estimate.
SurvivalCurrentCash(snaps) ==
    LET mrr == snaps[Len(snaps)].mrr
        last_mrr == IF mrr > 0 THEN mrr ELSE 100
        total_burned == TotalBurned(snaps)
        initial_cash == Max2(last_mrr * 18, total_burned * 2)
    IN Max2(initial_cash - total_burned, last_mrr * 2)

\* A mutant of the simulator: the guard on the number of snapshots is gone.
SurvivalWithoutGuard(snaps) == [current_cash |-> SurvivalCurrentCash(snaps)]

\* compute_survival_analysis(snapshots) as the run calls it: the empty dict
\* below three snapshots; the dict of a simulation is stood for by the cash
\* the simulation starts from.  The simulation itself is modelled below.
compute_survival_analysis(snaps) ==
    IF Len(snaps) < 3 THEN <<>>
    ELSE [current_cash |-> SurvivalCurrentCash(snaps)]

\* A mutant of the store: the new entities are added without the deletes.
AddWithoutDelete(old, new) == old \o new

\* delete(...).where(run_id == run_id) then session.add_all(new): the
\* entities of the run id after the commit.
Replace(old, new) == new

NoEntities ==
    [snapshots |-> <<>>, anomalies |-> <<>>, fraud_alerts |-> <<>>,
     customer_profiles |-> <<>>]

NoRun ==
    [status |-> "none", raw_rows |-> <<>>, rerun |-> FALSE,
     iso |-> <<>>, chronos |-> <<>>, anomalies |-> <<>>, forecasts |-> NoForecasts,
     survival |-> <<>>, scenarios |-> <<>>]

\* The agent is constructed with chronos_enabled set or not (or with
\* DISABLE_CHRONOS=1); nothing is persisted, fitted, cached or stored yet.
RunStart ==
    /\ rawRows = <<>>
    /\ enabled \in BOOLEAN
    /\ forest = "unfitted"
    /\ forecastCache = <<>>
    /\ stored = NoEntities
    /\ lastRun = NoRun

\* IngestionAgent.persist: one more week of rows for the run id.
PersistRaw ==
    /\ Len(WeeksOf(rawRows)) < MaxWeeks
    /\ \E batch \in WeekBatches(Len(WeeksOf(rawRows))) : rawRows' = rawRows \o batch
    /\ UNCHANGED <<enabled, forest, forecastCache, stored, lastRun>>
    /\ UNCHANGED exceptRun

\* A mutant of the guards: a run that finds no rows returns normally with
\* empty results.
RunOnEmptyCompletes ==
    /\ rawRows = <<>>
    /\ lastRun' = [NoRun EXCEPT !.status = "complete"]
    /\ UNCHANGED <<rawRows, enabled, forest, forecastCache, stored>>
    /\ UNCHANGED exceptRun

\* AnalysisAgent.run when one of its two guards raises ValueError: nothing
\* is computed, stored or returned.
RunRaises ==
    /\ lastRun' = [NoRun EXCEPT !.status = "ValueError", !.raw_rows = rawRows]
    /\ UNCHANGED <<rawRows, enabled, forest, forecastCache, stored>>
    /\ UNCHANGED exceptRun

\* AnalysisAgent.run past both guards, to the commit and the return.
RunCompletes(snaps) ==
    /\ LET survival == compute_survival_analysis(snaps)
           scenario_analysis == compute_scenario_stress_test(snaps)
           fraud_alerts == detect_fraud_patterns(rawRows)
           customer_profiles == compute_customer_profiles(rawRows)
           reaches == Len(snaps) >= 12 /\ enabled
       IN \E kind \in (IF forest = "unfitted" /\ FitsForest(snaps)
                       THEN ForestKinds ELSE {forest}),
             answer \in (IF reaches THEN PipelineDomain
                         ELSE {CHOOSE a \in PipelineDomain : TRUE}) :
             LET iso_anomalies == detect_isolation_forest_anomalies(snaps, kind)
                 chronos == detect_chronos_anomalies(snaps, enabled, forecastCache,
                                                     answer)
                 merged_anomalies ==
                     merge_and_deduplicate_anomalies(iso_anomalies \o chronos.anomalies)
             IN /\ forest' = kind
                /\ forecastCache' = chronos.cache
                /\ stored' =
                     [snapshots |-> Replace(stored.snapshots, snaps),
                      anomalies |-> Replace(stored.anomalies, merged_anomalies),
                      fraud_alerts |-> Replace(stored.fraud_alerts, fraud_alerts),
                      customer_profiles |-> Replace(stored.customer_profiles,
                                                    customer_profiles)]
                /\ lastRun' =
                     [status |-> "complete",
                      raw_rows |-> rawRows,
                      rerun |-> (lastRun.status = "complete"
                                 /\ lastRun.raw_rows = rawRows),
                      iso |-> iso_anomalies,
                      chronos |-> chronos.anomalies,
                      anomalies |-> merged_anomalies,
                      forecasts |-> chronos.forecasts,
                      survival |-> survival,
                      scenarios |-> scenario_analysis]
    /\ UNCHANGED <<rawRows, enabled>>
    /\ UNCHANGED exceptRun

\* AnalysisAgent.run: the first guard raises when no rows are found for the
\* run id, the second when the builder returns no snapshot.
RunAnalysis ==
    LET snaps == compute_kpi_snapshots(rawRows)
    IN IF rawRows = <<>> \/ snaps = <<>> THEN RunRaises ELSE RunCompletes(snaps)

RunNext == PersistRaw \/ RunAnalysis

(***************************************************************************)
(* Survival simulator: compute_survival_analysis                           *)
(*                                                                         *)
(* rng.normal(mu, max(sigma, 1.0)) is mu + max(sigma, 1.0) * z, z being    *)
(* the next standard normal draw of default_rng(42).  The stream of that   *)
(* generator is one fixed sequence, the same in every call; the model      *)
(* draws it once, before the first call, from the streams in which the 54  *)
(* draws of a path are all the same multiple of a quarter.                 *)
(***************************************************************************)
\* Bound: the most times the history is extended.
MaxBlocks == 3

\* Bound: the most simulated paths.  For up to four paths the float
\* int((1.0 - k / n) * 100) is the integer part of the exact quotient.
MaxSims == 3

\* Bound: the most days the clock advances.
MaxDays == 1

\* A history is extended by one week or by four equal weeks.
BlockLens == {1, 4}

\* A week that burns 1.00 and earns nothing, a week that earns 0.50 and
\* burns nothing.
SurvSnapshotDomain == { [mrr |-> 0, burn_rate |-> 100], [mrr |-> 50, burn_rate |-> 0] }

\* The draws of a path, in quarters: all -0.25 or all +0.25.
DrawLevels == {-1, 1}

\* 100.00 more burn in the latest week.
BurnRaise == 10000

\* max_weeks = 54
max_weeks == 54

\* sum(b * b for b in burn_rates)
BurnSquares(snaps) ==
    SumSeq([i \in 1..Len(snaps) |-> snaps[i].burn_rate * snaps[i].burn_rate])

\* The sign of L * sqrt(V) - R for L > 0, V >= 0 and R >= 0, without the
\* root: with q = R \div L and rho = R % L, sqrt(V) is compared with
\* q + rho / L.
SqrtSign(L, V, R) ==
    LET q == R \div L
        rho == R % L
        lhs == (V - q * q) * L * L
        rhs == 2 * q * rho * L + rho * rho
    IN IF q > 46340 THEN -1
       ELSE IF V < q * q THEN -1
       ELSE IF q < 46340 /\ V >= (q + 1) * (q + 1) THEN 1
       ELSE IF lhs < rhs THEN -1 ELSE IF lhs = rhs THEN 0 ELSE 1

\* L * sqrt(V) <= R for integers L and R and V >= 0.
SqrtLeq(L, V, R) ==
    IF L = 0 THEN 0 <= R
    ELSE IF L > 0 THEN R >= 0 /\ SqrtSign(L, V, R) <= 0
    ELSE R >= 0 \/ SqrtSign(-L, V, -R) >= 0

\* What the simulation takes from the history: len(snapshots), the sum of
\* the burn rates (-mu * n), n * n * sigma^2 and current_cash.
SimulationInputs(snaps) ==
    [n |-> Len(snaps),
     total_burned |-> TotalBurned(snaps),
     variance |-> Len(snaps) * BurnSquares(snaps) - TotalBurned(snaps) * TotalBurned(snaps),
     current_cash |-> SurvivalCurrentCash(snaps)]

\* cash <= 0 after `week` draws of `level` quarters each:
\* current_cash + week * mu + week * max(sigma, 1.0) * level / 4 <= 0,
\* multiplied by 4 * n.
CashExhausted(in, level, week) ==
    LET lhs == week * level
        rhs == 4 * (week * in.total_burned - in.n * in.current_cash)
    IN IF in.variance <= (100 * in.n) * (100 * in.n)
       THEN lhs * 100 * in.n <= rhs
       ELSE SqrtLeq(lhs, in.variance, rhs)

\* The inner loop over the weeks: exhausted_at_days, or max_weeks * 7 + 1.
RECURSIVE ZeroCashDay(_, _, _)
ZeroCashDay(in, level, week) ==
    IF week > max_weeks THEN max_weeks * 7 + 1
    ELSE IF CashExhausted(in, level, week) THEN week * 7
    ELSE ZeroCashDay(in, level, week + 1)

\* The paths that are not yet ruined at the limit.
SurvivorCount(days, limit) == Cardinality({p \in 1..Len(days) : days[p] >= limit})

\* How many of the paths have days <= limit.
RuinCount(days, limit) == Cardinality({p \in 1..Len(days) : days[p] <= limit})

\* The label ladder with the LOW_RISK band starting above 65.
SurvivalLabelStrict(score) ==
    IF score >= 80 THEN "SAFE"
    ELSE IF score > 65 THEN "LOW_RISK"
    ELSE IF score >= 45 THEN "MODERATE_RISK"
    ELSE IF score >= 25 THEN "HIGH_RISK"
    ELSE "CRITICAL"

\* The label of a score.
SurvivalLabel(score) ==
    IF score >= 80 THEN "SAFE"
    ELSE IF score >= 65 THEN "LOW_RISK"
    ELSE IF score >= 45 THEN "MODERATE_RISK"
    ELSE IF score >= 25 THEN "HIGH_RISK"
    ELSE "CRITICAL"

\* No call of the simulator.
NoCall ==
    [history |-> <<>>, n_simulations |-> 0, today |-> 0, zero_cash_days |-> <<>>,
     ruin_365 |-> 0, result |-> <<>>]

\* compute_survival_analysis(snapshots, n_simulations) called on the day
\* `day` with the generator yielding `levels`: the locals zero_cash_days and
\* ruin_365 and the dict returned.  A probability is in units of 1e-4, the
\* fundraising deadline is <<>> for None and <<d>> for the date d.
SimulateSurvival(snaps, n, levels, day) ==
    LET in == SimulationInputs(snaps)
        zero_cash_days == [p \in 1..n |-> ZeroCashDay(in, levels[p], 1)]
        ruin_365 == RuinCount(zero_cash_days, 365)
        expected_zero_day == Median2(zero_cash_days) \div 2
        survival_score == Max2(0, Min2(100, (100 * (n - ruin_365)) \div n))
        fundraising_deadline_days == expected_zero_day - 180
    IN IF Len(snaps) < 3
       THEN [NoCall EXCEPT !.history = snaps, !.n_simulations = n, !.today = day]
       ELSE [history |-> snaps, n_simulations |-> n, today |-> day,
             zero_cash_days |-> zero_cash_days,
             ruin_365 |-> ruin_365,
             result |->
                 [score |-> survival_score,
                  label |-> SurvivalLabel(survival_score),
                  probability_ruin_90d |->
                      RoundRatio(RuinCount(zero_cash_days, 90), n, 10000),
                  probability_ruin_180d |->
                      RoundRatio(RuinCount(zero_cash_days, 180), n, 10000),
                  probability_ruin_365d |-> RoundRatio(ruin_365, n, 10000),
                  expected_zero_cash_day |-> Min2(expected_zero_day, max_weeks * 7),
                  fundraising_deadline |->
                      IF fundraising_deadline_days > 0
                      THEN <<day + fundraising_deadline_days>>
                      ELSE <<>>]]

SurvStart ==
    /\ survHistory = <<>>
    /\ survBlocks = 0
    /\ n_simulations = 0
    /\ rngStream = <<>>
    /\ today = 0
    /\ survPrev = NoCall
    /\ survLast = NoCall
    /\ survPc = "unseeded"

\* The caller's n_simulations and the stream of default_rng(42) are fixed
\* before the first call.
SeedGenerator ==
    /\ survPc = "unseeded"
    /\ \E n \in 1..MaxSims : \E levels \in [1..n -> DrawLevels] :
          /\ n_simulations' = n
          /\ rngStream' = levels
    /\ survPc' = "input"
    /\ UNCHANGED <<survHistory, survBlocks, today, survPrev, survLast>>
    /\ UNCHANGED exceptSurv

\* One more week, or four equal weeks, at the end of the history.
AddSurvWeeks ==
    /\ survPc = "input"
    /\ survBlocks < MaxBlocks
    /\ \E len \in BlockLens, snap \in SurvSnapshotDomain :
          survHistory' = survHistory \o [i \in 1..len |-> snap]
    /\ survBlocks' = survBlocks + 1
    /\ UNCHANGED <<n_simulations, rngStream, today, survPrev, survLast, survPc>>
    /\ UNCHANGED exceptSurv

\* A call of compute_survival_analysis; a second call follows a change of
\* the date or of the latest burn rate.
Simulate ==
    /\ survPc \in {"input", "again"}
    /\ survLast' = SimulateSurvival(survHistory, n_simulations, rngStream, today)
    /\ survPrev' = survLast
    /\ survPc' = IF survPc = "input" THEN "done" ELSE "redone"
    /\ UNCHANGED <<survHistory, survBlocks, n_simulations, rngStream, today>>
    /\ UNCHANGED exceptSurv

\* Midnight passes between two calls.
Tick ==
    /\ survPc \in {"done", "again"}
    /\ today < MaxDays
    /\ today' = today + 1
    /\ survPc' = "again"
    /\ UNCHANGED <<survHistory, survBlocks, n_simulations, rngStream, survPrev,
                   survLast>>
    /\ UNCHANGED exceptSurv

\* The next call is given the same history with a higher burn rate in its
\* latest week.
RaiseBurn ==
    /\ survPc = "done"
    /\ survHistory # <<>>
    /\ survHistory' =
          [survHistory EXCEPT ![Len(survHistory)].burn_rate = @ + BurnRaise]
    /\ survPc' = "again"
    /\ UNCHANGED <<survBlocks, n_simulations, rngStream, today, survPrev, survLast>>
    /\ UNCHANGED exceptSurv

SurvNext == SeedGenerator \/ AddSurvWeeks \/ Simulate \/ Tick \/ RaiseBurn

(***************************************************************************)
(* One path of the simulation, week by week: the inner loop of             *)
(* compute_survival_analysis with a shock of its own in every week.  Cash  *)
(* and shocks are in units of 1.00.                                        *)
(***************************************************************************)
\* Bound: the largest current_cash a path starts from.
MaxStartCash == 2

\* rng.normal(mu, max(sigma, 1.0)): what one week adds to the cash.
WeeklyChanges == {-1, 1}

\* exhausted_at_days overwritten by every week with cash at or below 0.
LatestExhausted(cash, exhausted, week) ==
    IF cash <= 0 THEN <<week * 7>> ELSE exhausted

\* if cash <= 0 and exhausted_at_days is None: exhausted_at_days = week * 7
ExhaustedAfter(cash, exhausted, week) ==
    IF cash <= 0 /\ exhausted = <<>> THEN <<week * 7>> ELSE exhausted

PathStart ==
    /\ pathCash = 0
    /\ pathWeek = 0
    /\ exhausted_at_days = <<>>
    /\ pathDays = <<>>
    /\ pathPc = "start"

\* cash = current_cash; exhausted_at_days = None
BeginPath ==
    /\ pathPc = "start"
    /\ \E current_cash \in 1..MaxStartCash : pathCash' = current_cash
    /\ pathPc' = "loop"
    /\ UNCHANGED <<pathWeek, exhausted_at_days, pathDays>>
    /\ UNCHANGED exceptPath

\* One pass of `for week in range(1, max_weeks + 1)`.
WeekPasses ==
    /\ pathPc = "loop"
    /\ pathWeek < max_weeks
    /\ \E weekly_change \in WeeklyChanges :
          /\ pathCash' = pathCash + weekly_change
          /\ exhausted_at_days' =
                ExhaustedAfter(pathCash', exhausted_at_days, pathWeek + 1)
    /\ pathWeek' = pathWeek + 1
    /\ UNCHANGED <<pathDays, pathPc>>
    /\ UNCHANGED exceptPath

\* days = exhausted_at_days if exhausted_at_days is not None
\*        else max_weeks * 7 + 1
PathEnds ==
    /\ pathPc = "loop"
    /\ pathWeek = max_weeks
    /\ pathDays' = IF exhausted_at_days # <<>> THEN exhausted_at_days
                   ELSE <<max_weeks * 7 + 1>>
    /\ pathPc' = "done"
    /\ UNCHANGED <<pathCash, pathWeek, exhausted_at_days>>
    /\ UNCHANGED exceptPath

PathNext == BeginPath \/ WeekPasses \/ PathEnds

(***************************************************************************)
(* AnalysisAgent.run statement by statement, in the session of             *)
(* DatabaseManager.session: what is stored for the run id is a version per *)
(* table, 0 for nothing and k for the entities computed from k raw rows.   *)
(***************************************************************************)
\* Bound: the most raw rows persisted for the run id.
MaxTxRows == 2

Tables == {"snapshots", "anomalies", "fraud_alerts", "customer_profiles"}

\* The statements with the deletes moved in front of the computations.
DeleteFirstStatements ==
    << [op |-> "load", what |-> "raw_rows"],
       [op |-> "delete", what |-> "snapshots"],
       [op |-> "delete", what |-> "anomalies"],
       [op |-> "delete", what |-> "fraud_alerts"],
       [op |-> "delete", what |-> "customer_profiles"],
       [op |-> "compute", what |-> "snapshots"],
       [op |-> "compute", what |-> "anomalies"],
       [op |-> "compute", what |-> "survival"],
       [op |-> "compute", what |-> "scenarios"],
       [op |-> "compute", what |-> "fraud_alerts"],
       [op |-> "compute", what |-> "customer_profiles"],
       [op |-> "add_all", what |-> "entities"],
       [op |-> "commit", what |-> "session"] >>

\* The statements of AnalysisAgent.run in the order of the source.
RunStatements ==
    << [op |-> "load", what |-> "raw_rows"],
       [op |-> "compute", what |-> "snapshots"],
       [op |-> "compute", what |-> "anomalies"],
       [op |-> "compute", what |-> "survival"],
       [op |-> "compute", what |-> "scenarios"],
       [op |-> "compute", what |-> "fraud_alerts"],
       [op |-> "compute", what |-> "customer_profiles"],
       [op |-> "delete", what |-> "snapshots"],
       [op |-> "delete", what |-> "anomalies"],
       [op |-> "delete", what |-> "fraud_alerts"],
       [op |-> "delete", what |-> "customer_profiles"],
       [op |-> "add_all", what |-> "entities"],
       [op |-> "commit", what |-> "session"] >>

NoTransaction == [deleted |-> {}, added |-> {}]

NothingStored == [t \in Tables |-> 0]

TxStart ==
    /\ txRaw = 0
    /\ txStored = NothingStored
    /\ session = NoTransaction
    /\ txPc = 0
    /\ txOutcome = "none"
    /\ txBefore = NothingStored
    /\ txDeleted = FALSE

\* The statement the run executes next.
Statement == RunStatements[txPc]

\* IngestionAgent.persist: one more raw row for the run id.
PersistRow ==
    /\ txPc = 0
    /\ txRaw < MaxTxRows
    /\ txRaw' = txRaw + 1
    /\ UNCHANGED <<txStored, session, txPc, txOutcome, txBefore, txDeleted>>
    /\ UNCHANGED exceptTx

\* _analysis_node opens a session and calls AnalysisAgent.run.
RunBegins ==
    /\ txPc = 0
    /\ txPc' = 1
    /\ session' = NoTransaction
    /\ txOutcome' = "none"
    /\ txBefore' = txStored
    /\ txDeleted' = FALSE
    /\ UNCHANGED <<txRaw, txStored>>
    /\ UNCHANGED exceptTx

\* An exception leaves run; DatabaseManager.session rolls the session back.
Raised(kind) ==
    /\ txOutcome' = kind
    /\ session' = NoTransaction
    /\ txPc' = 0
    /\ UNCHANGED <<txRaw, txStored, txBefore, txDeleted>>
    /\ UNCHANGED exceptTx

\* The statement returns and the next one is up.
Returned ==
    /\ txPc' = txPc + 1
    /\ UNCHANGED <<txRaw, txStored, txOutcome, txBefore>>
    /\ UNCHANGED exceptTx

\* select(RawFinancial) finds no row: ValueError.
LoadRaises ==
    /\ txPc > 0 /\ Statement.op = "load"
    /\ txRaw = 0
    /\ Raised("ValueError")

LoadReturns ==
    /\ txPc > 0 /\ Statement.op = "load"
    /\ txRaw > 0
    /\ Returned
    /\ UNCHANGED <<session, txDeleted>>

\* A derived collection is computed.
ComputationReturns ==
    /\ txPc > 0 /\ Statement.op = "compute"
    /\ Returned
    /\ UNCHANGED <<session, txDeleted>>

\* The computation of a derived collection raises (ValueError when no
\* snapshot could be computed).
ComputationRaises ==
    /\ txPc > 0 /\ Statement.op = "compute"
    /\ Raised(IF Statement.what = "snapshots" THEN "ValueError" ELSE "raised")

\* session.execute(delete(...).where(run_id == run_id))
DeleteRuns ==
    /\ txPc > 0 /\ Statement.op = "delete"
    /\ session' = [session EXCEPT !.deleted = @ \cup {Statement.what}]
    /\ txDeleted' = TRUE
    /\ Returned

\* session.add_all(...) for the four entity lists.
AddAllRuns ==
    /\ txPc > 0 /\ Statement.op = "add_all"
    /\ session' = [session EXCEPT !.added = Tables]
    /\ UNCHANGED txDeleted
    /\ Returned

\* What the commit of the session leaves in the tables.
Committed(before, tx, version) ==
    [t \in Tables |->
        IF t \in tx.added THEN version
        ELSE IF t \in tx.deleted THEN 0
        ELSE before[t]]

\* session.commit(), and run returns its result.
CommitRuns ==
    /\ txPc > 0 /\ Statement.op = "commit"
    /\ txStored' = Committed(txStored, session, txRaw)
    /\ session' = NoTransaction
    /\ txOutcome' = "complete"
    /\ txPc' = 0
    /\ UNCHANGED <<txRaw, txBefore, txDeleted>>
    /\ UNCHANGED exceptTx

\* session.commit() raises.
CommitRaises ==
    /\ txPc > 0 /\ Statement.op = "commit"
    /\ Raised("commit_failed")

TxNext ==
    \/ PersistRow \/ RunBegins
    \/ LoadRaises \/ LoadReturns
    \/ ComputationReturns \/ ComputationRaises
    \/ DeleteRuns \/ AddAllRuns
    \/ CommitRuns \/ CommitRaises

(***************************************************************************)
(* CFOGraphRunner: the compiled workflow graph, one node per step.  An     *)
(* invocation on the thread of a run id starts from the state the          *)
(* checkpointer holds for that thread; a new run id starts from nothing.   *)
(***************************************************************************)
Tasks == {"analyze", "report", "board_prep"}

Threads == {"new", "run_id", "board_prep:run_id"}

\* config recursion_limit of run_analyze and run_report.
recursion_limit == 25

\* state.get(key, default)
Get(field, default) == IF field = <<>> THEN default ELSE field[1]

NoCheckpoint == [correction_attempts |-> <<>>, needs_correction |-> <<>>, status |-> <<>>]

FlowStart ==
    /\ task = "analyze"
    /\ thread = "new"
    /\ node = "END"
    /\ correction_attempts = <<>>
    /\ needs_correction = <<>>
    /\ status = <<>>
    /\ checkpoint = NoCheckpoint
    /\ passes = 0
    /\ startedWith = 0
    /\ steps = 0

\* The thread_id the entry points configure.
ThreadOf(t, reuse) ==
    IF t = "board_prep" THEN "board_prep:run_id"
    ELSE IF reuse THEN "run_id" ELSE "new"

\* run_analyze, run_report, run_board_prep: graph.ainvoke(initial_state).
Invoke(t, reuse) ==
    LET th == ThreadOf(t, reuse)
        saved == IF th = "run_id" THEN checkpoint ELSE NoCheckpoint
    IN  /\ node \in {"END", "raised"}
        /\ task' = t
        /\ thread' = th
        /\ node' = "router"
        /\ correction_attempts' = saved.correction_attempts
        /\ needs_correction' = saved.needs_correction
        /\ status' = saved.status
        /\ passes' = 0
        /\ startedWith' = Get(saved.correction_attempts, 0)
        /\ steps' = 0
        /\ UNCHANGED checkpoint
        /\ UNCHANGED exceptFlow

\* A node has returned: its update is applied, the checkpoint of the
\* thread is written and the edge is followed.
NodeReturns(next, attempts, needs, st) ==
    /\ node' = next
    /\ correction_attempts' = attempts
    /\ needs_correction' = needs
    /\ status' = st
    /\ steps' = steps + 1
    /\ checkpoint' = IF thread = "run_id"
                      THEN [correction_attempts |-> attempts,
                            needs_correction |-> needs, status |-> st]
                      ELSE checkpoint
    /\ UNCHANGED <<task, thread, startedWith>>
    /\ UNCHANGED exceptFlow

_route_from_router(t) ==
    CASE t = "analyze" -> "ingestion"
      [] t = "report" -> "market"
      [] t = "board_prep" -> "board_prep"

_router_node ==
    /\ node = "router"
    /\ NodeReturns(_route_from_router(task),
                   <<Get(correction_attempts, 0)>>, needs_correction, status)
    /\ UNCHANGED passes

\* The router's threshold raised by one.
RouteAfterThreePasses(needs, attempts) ==
    IF ~Get(needs, FALSE) THEN "persist_raw"
    ELSE IF Get(attempts, 0) >= 3 THEN "failure"
    ELSE "correction"

_route_after_ingestion(needs, attempts) ==
    IF ~Get(needs, FALSE) THEN "persist_raw"
    ELSE IF Get(attempts, 0) >= 2 THEN "failure"
    ELSE "correction"

\* IngestionAgent.ingest returns its result, needs_correction included.
_ingestion_node ==
    /\ node = "ingestion"
    /\ \E result \in BOOLEAN :
          LET needs == IF task # "analyze" THEN <<FALSE>> ELSE <<result>>
          IN  NodeReturns(_route_after_ingestion(needs, correction_attempts),
                          correction_attempts, needs, status)
    /\ UNCHANGED passes

_correction_node ==
    /\ node = "correction"
    /\ passes' = passes + 1
    /\ NodeReturns("ingestion", <<Get(correction_attempts, 0) + 1>>,
                   needs_correction, status)

_persist_raw_node ==
    /\ node = "persist_raw"
    /\ NodeReturns("analysis", correction_attempts, needs_correction, status)
    /\ UNCHANGED passes

_analysis_node ==
    /\ node = "analysis"
    /\ NodeReturns("market_analyze", correction_attempts, needs_correction, <<"complete">>)
    /\ UNCHANGED passes

\* AnalysisAgent.run raises and the invocation ends with the exception.
AnalysisNodeRaises ==
    /\ node = "analysis"
    /\ node' = "raised"
    /\ UNCHANGED <<task, thread, correction_attempts, needs_correction, status,
                   checkpoint, passes, startedWith, steps>>
    /\ UNCHANGED exceptFlow

_market_analyze_node ==
    /\ node = "market_analyze"
    /\ NodeReturns("END", correction_attempts, needs_correction, status)
    /\ UNCHANGED passes

_market_node ==
    /\ node = "market"
    /\ NodeReturns("insight", correction_attempts, needs_correction, status)
    /\ UNCHANGED passes

_insight_node ==
    /\ node = "insight"
    /\ NodeReturns("END", correction_attempts, needs_correction, <<"complete">>)
    /\ UNCHANGED passes

_board_prep_node ==
    /\ node = "board_prep"
    /\ NodeReturns("END", correction_attempts, needs_correction, <<"complete">>)
    /\ UNCHANGED passes

_failure_node ==
    /\ node = "failure"
    /\ NodeReturns("END", correction_attempts, needs_correction, <<"failed">>)
    /\ UNCHANGED passes

\* One node of the graph executes.
NodeRuns ==
    \/ _router_node \/ _ingestion_node \/ _correction_node
    \/ _persist_raw_node \/ _analysis_node \/ AnalysisNodeRaises
    \/ _market_analyze_node \/ _market_node \/ _insight_node
    \/ _board_prep_node \/ _failure_node

FlowNext ==
    \/ \E t \in Tasks, reuse \in BOOLEAN : Invoke(t, reuse)
    \/ NodeRuns

(***************************************************************************)
(* Forecaster: Chronos2Forecaster.forecast_bounds called by two runs       *)
(*                                                                         *)
(* The runs are background tasks of one process and share one             *)
(* AnalysisAgent, so one forecaster.  forecast_bounds has no await in it,  *)
(* so the calls of concurrently executing runs interleave call by call.    *)
(* _forecast_cache is a class attribute: one dict for the process.  Its    *)
(* key is the MD5 of the text of the series and the horizon; the text of a *)
(* list of floats determines the floats, so the key is carried as the pair *)
(* itself (the series here have no signed zero and no NaN).                *)
(***************************************************************************)
\* Bound: the most calls of forecast_bounds.
MaxCalls == 3

\* The runs that execute concurrently.
RunIds == {1, 2}

\* The (series, horizon) pairs asked for: eight values leave a context of
\* six, seven values a context of five, which is too short.
ForecastRequests ==
    { [series |-> [i \in 1..8 |-> 100000], horizon |-> 2],
      [series |-> [i \in 1..8 |-> 200000], horizon |-> 2],
      [series |-> [i \in 1..7 |-> 100000], horizon |-> 2] }

\* What pipeline.predict does when it is reached: it raises, or it returns
\* one of two predictions.
PredictOutcomes ==
    {[raises |-> TRUE, answer |-> CHOOSE a \in PipelineDomain : a.fails = {}]}
        \cup {[raises |-> FALSE, answer |-> a] : a \in {b \in PipelineDomain : b.fails = {}}}

\* One call of forecast_bounds made for run `run`: "hit" when
\* the key is in the cache, else "inferred" when a prediction was stored,
\* else "raised"; predict_calls counts the calls of pipeline.predict.
ForecastCall(run, request, outcome) ==
    LET cache_key == <<request.series, request.horizon>>
        hit == cache_key \in DOMAIN forecastCache
        reached == enabled /\ Len(request.series) - request.horizon >= 6
        call == forecast_bounds(forecastCache, request.series, request.horizon,
                                ~enabled \/ outcome.raises, outcome.answer)
    IN /\ forecastCache' = call.cache
       /\ fcLog' = Append(fcLog,
              [run |-> run, series |-> request.series, horizon |-> request.horizon,
               outcome |-> IF hit THEN "hit" ELSE IF call.ok THEN "inferred"
                           ELSE "raised",
               bounds |-> call.bounds,
               predict_calls |-> IF ~hit /\ reached THEN 1 ELSE 0])

ForecasterStart == fcLog = <<>>

\* Some run's forecaster is asked for a forecast.
CallForecaster ==
    /\ Len(fcLog) < MaxCalls
    /\ \E run \in RunIds, request \in ForecastRequests, outcome \in PredictOutcomes :
          ForecastCall(run, request, outcome)
    /\ UNCHANGED <<rawRows, enabled, forest, stored, lastRun>>
    /\ UNCHANGED exceptForecaster

ForecasterNext == CallForecaster

(***************************************************************************)
(* Specifications                                                          *)
(***************************************************************************)
Init ==
    /\ MergeStart /\ KpiStart /\ FraudStart /\ CustStart /\ ScenStart
    /\ RunStart /\ SurvStart /\ ForecasterStart /\ PathStart /\ TxStart /\ FlowStart

SpecMerge == Init /\ [][MergeNext]_vars

SpecKpi == Init /\ [][KpiNext]_vars

SpecFraud == Init /\ [][FraudNext]_vars

SpecCust == Init /\ [][CustNext]_vars

SpecScen == Init /\ [][ScenNext]_vars

SpecRun == Init /\ [][RunNext]_vars

SpecSurv == Init /\ [][SurvNext]_vars

SpecFraudWeeks == Init /\ [][FraudWeeksNext]_vars

SpecPayroll == Init /\ [][PayrollNext]_vars

SpecPath == Init /\ [][PathNext]_vars

SpecTx == Init /\ [][TxNext]_vars

SpecFlow == Init /\ [][FlowNext]_vars

\* Every node that is invoked returns or raises.
SpecFlowFair == Init /\ [][FlowNext]_vars /\ WF_vars(NodeRuns)

SpecForecaster == Init /\ [][ForecasterNext]_vars

(***************************************************************************)
(* Properties                                                              *)
(***************************************************************************)
\* C2: merging the result of a merge returns the same records in the same
\* order as the first merge.
C2_MergeIdempotent == mergePc = "remerged" => remerged = merged

\* Witness of C2: a list with two records of one key and a record of another
\* has been merged twice.
C2_Witness ==
    /\ mergePc = "remerged"
    /\ Len(merged) = 2
    /\ Len(anomalies) = 3

\* The input records that share the key of `r`.
SameKey(r) == {i \in 1..Len(anomalies) : AnomalyKey(anomalies[i]) = AnomalyKey(r)}

MaxRank(r) ==
    CHOOSE m \in 1..3 :
        /\ \E i \in SameKey(r) : severity_rank(anomalies[i].severity) = m
        /\ \A i \in SameKey(r) : severity_rank(anomalies[i].severity) <= m

\* C3: the record kept for a key has the highest severity among the input
\* records of that key, and is a forecast record whenever a forecast record
\* of that highest severity exists.
C3_KeepsHighestSeverity ==
    mergePc # "input" =>
        \A k \in 1..Len(merged) :
            LET r == merged[k] IN
            /\ severity_rank(r.severity) = MaxRank(r)
            /\ (\E i \in SameKey(r) :
                    /\ severity_rank(anomalies[i].severity) = MaxRank(r)
                    /\ anomalies[i].source = "chronos2")
               => r.source = "chronos2"

\* C1: every snapshot the builder returns for a non-empty transaction set
\* has burn_rate >= 0, mrr >= 0 and 0 <= churn_rate <= 1.
C1_SnapshotRanges ==
    (kpiPc = "done" /\ rows # <<>>) =>
        \A k \in 1..Len(snapshots) :
            /\ snapshots[k].burn_rate >= 0
            /\ snapshots[k].mrr >= 0
            /\ snapshots[k].churn_rate >= 0
            /\ snapshots[k].churn_rate <= 10000

\* The dict `metrics` of every week of the frame, oldest first, before the
\* values are rounded for the snapshot.
RECURSIVE MetricsHistory(_, _, _)
MetricsHistory(frame, weeks, hist) ==
    IF Len(hist) = Len(weeks) THEN hist
    ELSE MetricsHistory(frame, weeks,
                        Append(hist, WeekMetrics(frame, weeks[Len(hist) + 1], hist)))

\* C12: in every snapshot wow_delta[m] is 0 for each metric m whose value in
\* the previous snapshot is 0 (every metric of the first snapshot included),
\* and otherwise is (curr - prev) / |prev| of the week and the week before,
\* to four decimals.
C12_WowDelta ==
    (kpiPc = "done" /\ rows # <<>>) =>
        LET hist == MetricsHistory(WeeklyFrame(rows), WeeksOf(rows), <<>>)
        IN \A k \in 1..Len(snapshots) : \A m \in Range(METRIC_NAMES) :
              IF k = 1 \/ snapshots[Max2(k - 1, 1)][m] = 0
              THEN snapshots[k].wow_delta[m] = 0
              ELSE LET d == RatDiv(RatSub(hist[k][m], hist[k - 1][m]),
                                   RatAbs(hist[k - 1][m]))
                   IN snapshots[k].wow_delta[m] = RoundRatio(d.num, d.den, 10000)

\* C13: the builder returns one snapshot for each Monday-start week that
\* holds a transaction and none for any other week, every week_start is a
\* Monday, and the list is strictly increasing in week_start, whatever the
\* order of the transactions.
C13_OneSnapshotPerWeek ==
    kpiPc = "done" =>
        /\ \A k \in 1..Len(snapshots) : snapshots[k].week_start % 7 = 0
        /\ \A k \in 1..(Len(snapshots) - 1) :
              snapshots[k].week_start < snapshots[k + 1].week_start
        /\ \A i \in 1..Len(rows) : \E k \in 1..Len(snapshots) :
              /\ snapshots[k].week_start <= rows[i].date
              /\ rows[i].date <= snapshots[k].week_start + 6
        /\ \A k \in 1..Len(snapshots) : \E i \in 1..Len(rows) :
              /\ snapshots[k].week_start <= rows[i].date
              /\ rows[i].date <= snapshots[k].week_start + 6

\* Three transactions arrive newest week first, the two of the older week
\* on different days, and two snapshots are returned.
C13_Witness ==
    /\ kpiPc = "done"
    /\ Len(rows) = 3
    /\ rows[1].date = 14
    /\ rows[2].date = 13
    /\ rows[3].date = 8
    /\ Len(snapshots) = 2

\* The round_number alerts returned for one week and category.
RoundAlerts(wk, cat) ==
    {i \in 1..Len(alerts) :
        /\ alerts[i].pattern = "round_number"
        /\ alerts[i].week_start = wk
        /\ alerts[i].category = cat}

\* C9: a round_number alert is returned for a (week, category) exactly when a
\* transaction of that week and category is outside the revenue categories
\* and has |amount| >= 1000 divisible by 1000; none is returned for
\* subscription_revenue or churn_refund, and each has severity HIGH.
C9_RoundNumberRule ==
    fraudPc = "done" =>
        /\ \A wk \in {_week_of(d) : d \in FraudDates}, cat \in FraudCategories :
              (RoundAlerts(wk, cat) # {}) <=>
                  \E i \in 1..Len(fraudRows) :
                      /\ _week_of(fraudRows[i].date) = wk
                      /\ fraudRows[i].category = cat
                      /\ cat \notin {"subscription_revenue", "churn_refund"}
                      /\ Abs(fraudRows[i].amount) >= 100000
                      /\ Abs(fraudRows[i].amount) % 100000 = 0
        /\ \A i \in 1..Len(alerts) :
              alerts[i].pattern = "round_number" =>
                  /\ alerts[i].severity = "HIGH"
                  /\ alerts[i].category \notin {"subscription_revenue", "churn_refund"}

\* Witness of C9: a round revenue amount and a non-round expense raised no
\* alert while a round expense of the same list raised one.
C9_Witness ==
    /\ fraudPc = "done"
    /\ \E i \in 1..Len(alerts) : alerts[i].pattern = "round_number"
    /\ \E i \in 1..Len(fraudRows) :
          /\ fraudRows[i].category = "subscription_revenue"
          /\ fraudRows[i].amount = -200000
    /\ \E i \in 1..Len(fraudRows) :
          /\ fraudRows[i].category = "marketing_expense"
          /\ fraudRows[i].amount = 100050

\* The transactions that raise a round_number alert for the key of alert a.
RoundRowsFor(a) ==
    {i \in 1..Len(fraudRows) :
        /\ _week_of(fraudRows[i].date) = a.week_start
        /\ fraudRows[i].category = a.category
        /\ a.category \notin {"subscription_revenue", "churn_refund"}
        /\ Abs(fraudRows[i].amount) >= 100000
        /\ Abs(fraudRows[i].amount) % 100000 = 0}

\* The list out holds, for every key of the list cands, the first element
\* of cands with that key, and no two elements of out share a key.
FirstOfEachKey(cands, out) ==
    /\ \A i, j \in 1..Len(out) :
          (/\ out[i].week_start = out[j].week_start
           /\ out[i].category = out[j].category
           /\ out[i].pattern = out[j].pattern) => i = j
    /\ \A i \in 1..Len(out) : \E k \in 1..Len(cands) :
          /\ cands[k] = out[i]
          /\ \A j \in 1..(k - 1) :
                \/ cands[j].week_start # out[i].week_start
                \/ cands[j].category # out[i].category
                \/ cands[j].pattern # out[i].pattern
    /\ \A k \in 1..Len(cands) : \E i \in 1..Len(out) :
          /\ cands[k].week_start = out[i].week_start
          /\ cands[k].category = out[i].category
          /\ cands[k].pattern = out[i].pattern

\* C14: the scanner never returns two alerts with the same (week_start,
\* category, pattern); the alert returned for a key is the first one
\* generated for it, and every generated key is returned; a round_number
\* alert is that of the first qualifying transaction in input order.
C14_FirstPerKey ==
    fraudPc = "done" =>
        /\ FirstOfEachKey(generated, alerts)
        /\ \A i \in 1..Len(alerts) :
              alerts[i].pattern = "round_number" =>
                  /\ RoundRowsFor(alerts[i]) # {}
                  /\ LET first == CHOOSE k \in RoundRowsFor(alerts[i]) :
                                      \A j \in RoundRowsFor(alerts[i]) : k <= j
                     IN /\ alerts[i].amount = fraudRows[first].amount
                        /\ alerts[i].description =
                              <<Abs(fraudRows[first].amount), fraudRows[first].date>>

\* Two round expenses of one week and category with different amounts were
\* scanned, 1000.00 before -2000.00, and the one alert returned for them is
\* that of the 1000.00.
C14_Witness ==
    /\ fraudPc = "done"
    /\ \E i, j \in 1..Len(fraudRows) :
          /\ i < j
          /\ fraudRows[i] \in SecondRoundRows
          /\ fraudRows[j].date = 1
          /\ fraudRows[j].category = "marketing_expense"
          /\ fraudRows[j].amount = -200000
          /\ \A k \in 1..(i - 1) : fraudRows[k].amount # -200000
    /\ \E i \in 1..Len(alerts) :
          /\ alerts[i].pattern = "round_number"
          /\ alerts[i].week_start = 0
          /\ alerts[i].amount = 100000

\* The sum of the returned revenue_pct values, in 1e-4 units.
PctSum == SumSeq([i \in 1..Len(profiles) |-> profiles[i].revenue_pct])

\* The sum of the returned total_revenue values.
ProfileRevenue == SumSeq([i \in 1..Len(profiles) |-> profiles[i].total_revenue])

\* C10 as stated: with at least one profile the revenue_pct values sum to 1.0
\* within 1e-6 (values of four decimals: the sum is exactly 1.0000).
C10_PctSumsToOne == (custPc = "done" /\ Len(profiles) >= 1) => PctSum = 10000

\* C10 as amended: with positive total revenue the shares, each rounded to
\* four decimals, sum to 1.0 within 0.00005 per profile; with a total that is
\* not positive every share is 0.
C10_PctSumWithinRounding ==
    (custPc = "done" /\ Len(profiles) >= 1) =>
        IF ProfileRevenue > 0
        THEN 2 * Abs(PctSum - 10000) <= Len(profiles)
        ELSE \A i \in 1..Len(profiles) : profiles[i].revenue_pct = 0

\* Witness of C10: three customers with equal revenue, whose rounded shares
\* sum to 0.9999.
C10_Witness ==
    /\ custPc = "done"
    /\ Len(profiles) = 3
    /\ ProfileRevenue > 0
    /\ PctSum = 9999

\* The months_runway of the scenario with this name.
RunwayOf(name) ==
    LET k == CHOOSE i \in 1..Len(scenarios) : scenarios[i].scenario = name
    IN scenarios[k].months_runway

\* C8: bear.months_runway <= base.months_runway <= bull.months_runway for
\* every history, and all three are 99 when the latest burn is 0.
C8_RunwayOrdering ==
    (scenPc = "done" /\ history # <<>>) =>
        /\ Len(scenarios) = 3
        /\ RunwayOf("bear") <= RunwayOf("base")
        /\ RunwayOf("base") <= RunwayOf("bull")
        /\ history[Len(history)].burn_rate = 0 =>
              /\ RunwayOf("bear") = 990
              /\ RunwayOf("base") = 990
              /\ RunwayOf("bull") = 990

\* Witness of C8: a history whose latest burn is positive gave three
\* different runways.
C8_Witness ==
    /\ scenPc = "done"
    /\ Len(history) = 4
    /\ history[4].burn_rate > 0
    /\ RunwayOf("bear") < RunwayOf("base")
    /\ RunwayOf("base") < RunwayOf("bull")

\* What a completed run over these rows stores, given the anomalies it merged.
ComputedBy(run) ==
    [snapshots |-> compute_kpi_snapshots(run.raw_rows),
     anomalies |-> run.anomalies,
     fraud_alerts |-> detect_fraud_patterns(run.raw_rows),
     customer_profiles |-> compute_customer_profiles(run.raw_rows)]

\* A step from one completed run to the next over the same transactions.
SuccessiveRuns ==
    /\ lastRun.status = "complete"
    /\ lastRun'.status = "complete"
    /\ lastRun'.raw_rows = lastRun.raw_rows

RanOnEmpty == lastRun.status # "none" /\ lastRun.raw_rows = <<>>

\* C5: on an empty transaction set the failure is InsufficientDataError and
\* nothing is produced.
C5_EmptyRaisesInsufficientData ==
    RanOnEmpty =>
        /\ lastRun.status = "InsufficientDataError"
        /\ stored = NoEntities

\* C5 as amended: on an empty transaction set the run raises ValueError
\* before anything is computed, fitted, cached or stored, and the snapshot
\* builder itself returns the empty list.
C5_EmptyRaisesValueError ==
    /\ compute_kpi_snapshots(<<>>) = <<>>
    /\ RanOnEmpty =>
        /\ lastRun = [NoRun EXCEPT !.status = "ValueError"]
        /\ stored = NoEntities
        /\ forest = "unfitted"
        /\ forecastCache = <<>>

\* Witness of C5: a run has raised on the empty set.
C5_Witness == lastRun.status = "ValueError" /\ rawRows = <<>>

\* C6, for the amounts the model carries: a run over a non-empty transaction
\* set completes; below 3 snapshots the survival result is empty, below 8
\* the isolation forest detector returns nothing, below 12 the forecast
\* detector returns nothing, and snapshots, scenarios and customer profiles
\* are produced all the same.
C6_NonEmptyRunCompletes ==
    LET n == Len(stored.snapshots) IN
    /\ lastRun.status \in {"none", "complete", "ValueError"}
    /\ lastRun.status = "ValueError" => lastRun.raw_rows = <<>>
    /\ lastRun.status = "complete" =>
        /\ lastRun.raw_rows # <<>>
        /\ n >= 1
        /\ n < 3 => lastRun.survival = <<>>
        /\ n < 8 => lastRun.iso = <<>>
        /\ n < 12 => lastRun.chronos = <<>>
        /\ Len(lastRun.scenarios) = 3
        /\ stored.customer_profiles # <<>>

\* Witness of C6: eleven snapshots, enough for the survival result and the
\* isolation forest but not for the forecast detector.
C6_Witness ==
    /\ lastRun.status = "complete"
    /\ enabled
    /\ Len(stored.snapshots) = 11
    /\ lastRun.survival # <<>>
    /\ lastRun.iso # <<>>
    /\ lastRun.chronos = <<>>

\* The forecast anomalies of one metric, in the order returned.
ChronosOf(metric) ==
    LET OfMetric(a) == a.metric = metric IN SelectSeq(lastRun.chronos, OfMetric)

\* C7: the forecast detector returns and the run completes; with forecasting
\* disabled it returns nothing; a metric whose model call failed contributes
\* nothing, and every other metric contributes what its bounds flag.
C7_ForecastFailureIsolated ==
    lastRun.status = "complete" =>
        /\ ~enabled => lastRun.chronos = <<>>
        /\ \A metric \in Range(METRIC_NAMES) :
              LET f == lastRun.forecasts[metric] IN
              /\ f.outcome # "forecast" => ChronosOf(metric) = <<>>
              /\ f.outcome = "forecast" =>
                    ChronosOf(metric) =
                        ChronosTail(stored.snapshots, metric, f.bounds,
                                    Horizon(Len(stored.snapshots)))
        /\ Len(lastRun.scenarios) = 3
        /\ stored.snapshots # <<>>

\* Witness of C7: the call for arr failed, mrr before it and ltv after it
\* were forecast and flagged.
C7_Witness ==
    /\ lastRun.status = "complete"
    /\ lastRun.forecasts["arr"].outcome = "failed"
    /\ ChronosOf("mrr") # <<>>
    /\ ChronosOf("arr") = <<>>
    /\ ChronosOf("ltv") # <<>>

\* The latest two calls of the simulator both returned a result.
TwoResults ==
    /\ survPc = "redone"
    /\ survPrev.result # <<>>
    /\ survLast.result # <<>>

\* The latest call was given the mrr series of the call before it and, week
\* for week, a burn rate that is not lower.
BurnRaised ==
    /\ Len(survLast.history) = Len(survPrev.history)
    /\ \A i \in 1..Len(survLast.history) :
          /\ survLast.history[i].mrr = survPrev.history[i].mrr
          /\ survLast.history[i].burn_rate >= survPrev.history[i].burn_rate

\* C11: with the same generator stream and the same mrr series, the score of
\* a history whose burn rates are week for week not lower is not higher.
C11_ScoreMonotoneInBurn ==
    (TwoResults /\ BurnRaised) => survLast.result.score <= survPrev.result.score

\* C15: two calls given the same snapshots return the same result, the
\* fundraising deadline included, whenever they are made.
C15_SameInputSameResult ==
    (TwoResults /\ survLast.history = survPrev.history) =>
        survLast.result = survPrev.result

\* C18: the score is 100 * (1 - ruin_365 / n_simulations) rounded to the
\* nearest integer, within 0..100, whatever the count of ruined paths.
C18_ScoreRounded ==
    (survPc \in {"done", "redone"} /\ survLast.result # <<>>) =>
        LET n == survLast.n_simulations
            exact100n == 100 * (n - survLast.ruin_365)
        IN /\ survLast.result.score \in 0..100
           /\ 2 * Abs(survLast.result.score * n - exact100n) <= n

\* C19: in a non-empty result the fundraising deadline is the day of the
\* call plus (expected_zero_cash_day - 180), expected_zero_cash_day being the
\* value of the same result, when that difference is positive, and absent
\* otherwise.
C19_DeadlineFromReportedDay ==
    (survPc \in {"done", "redone"} /\ survLast.result # <<>>) =>
        LET days == survLast.result.expected_zero_cash_day - 180
        IN survLast.result.fundraising_deadline =
              IF days > 0 THEN <<survLast.today + days>> ELSE <<>>

\* C20: for a history the simulator accepts, every months_runway of the
\* stress test is the one computed from the simulator's current-cash
\* estimate for that history, also when the latest mrr is 0 or below 1.00.
C20_SameCashEstimate ==
    (scenPc = "done" /\ Len(history) >= 3) =>
        \A k \in 1..Len(scenarios) :
            scenarios[k].months_runway =
                _months_runway(SurvivalCurrentCash(history), ScenLastBurn(history),
                               scenario_params[k].burn_mult)

\* Calls i and j of the log ask for the same series and horizon.
SameRequest(i, j) ==
    /\ fcLog[i].series = fcLog[j].series
    /\ fcLog[i].horizon = fcLog[j].horizon

\* C16: no run reads what another run wrote: a call never returns bounds
\* that a call made for a different run stored.
C16_NoCrossRunState ==
    \A i, j \in 1..Len(fcLog) :
        (/\ i < j
         /\ SameRequest(i, j)
         /\ fcLog[i].outcome = "inferred"
         /\ fcLog[j].outcome = "hit") => fcLog[i].run = fcLog[j].run

\* C17: once a call for a series and horizon has succeeded, every later
\* call for them returns the bounds of that call without a call of the
\* model; a call that raised stored nothing: as long as no call for the pair
\* has succeeded, the next one is not answered from the cache.
C17_MemoizedAfterSuccess ==
    \A j \in 1..Len(fcLog) :
        LET earlier == {i \in 1..(j - 1) :
                           SameRequest(i, j) /\ fcLog[i].outcome # "raised"}
        IN IF earlier = {}
           THEN fcLog[j].outcome # "hit"
           ELSE /\ fcLog[j].outcome = "hit"
                /\ fcLog[j].predict_calls = 0
                /\ \A i \in earlier : fcLog[j].bounds = fcLog[i].bounds

\* A call raised in pipeline.predict, the next call for the same pair ran
\* the model and stored its prediction, and a third call, for which the
\* model would have predicted otherwise, returned the stored bounds.
C17_Witness ==
    /\ Len(fcLog) >= 3
    /\ SameRequest(1, 2) /\ SameRequest(1, 3)
    /\ fcLog[1].outcome = "raised" /\ fcLog[1].predict_calls = 1
    /\ fcLog[2].outcome = "inferred" /\ fcLog[2].predict_calls = 1
    /\ fcLog[3].outcome = "hit" /\ fcLog[3].predict_calls = 0
    /\ fcLog[3].bounds = fcLog[2].bounds

\* The label the thresholds give a score.
LabelByBand(score) ==
    CHOOSE l \in {"SAFE", "LOW_RISK", "MODERATE_RISK", "HIGH_RISK", "CRITICAL"} :
        /\ l = "SAFE" <=> score >= 80
        /\ l = "LOW_RISK" <=> (65 <= score /\ score < 80)
        /\ l = "MODERATE_RISK" <=> (45 <= score /\ score < 65)
        /\ l = "HIGH_RISK" <=> (25 <= score /\ score < 45)
        /\ l = "CRITICAL" <=> score < 25

\* C21: in every non-empty survival result the score is in 0..100 and the
\* label is the one of the score's band; the ladder gives every score of
\* 0..100 the label of its band.
C21_ScoreAndLabel ==
    /\ \A score \in 0..100 : SurvivalLabel(score) = LabelByBand(score)
    /\ (survPc \in {"done", "redone"} /\ survLast.result # <<>>) =>
           /\ survLast.result.score \in 0..100
           /\ survLast.result.label = LabelByBand(survLast.result.score)

\* Two results of the simulator with labels of different bands: no path
\* ruined within the year (SAFE), then every path (CRITICAL).
C21_Witness ==
    /\ TwoResults
    /\ survPrev.result.score = 100 /\ survPrev.result.label = "SAFE"
    /\ survLast.result.score = 0 /\ survLast.result.label = "CRITICAL"

\* The alerts of one pattern the scanner returned for a week and category.
AlertsFor(pattern, wk, cat) ==
    {i \in 1..Len(alerts) :
        /\ alerts[i].pattern = pattern
        /\ alerts[i].week_start = wk
        /\ alerts[i].category = cat}

\* The weekly totals of a category before week wk, oldest first.
EarlierTotals(rs, cat, wk) ==
    LET totals == CatTotals(rs, cat)
        Before(t) == t.wk < wk
        earlier == SelectSeq(totals, Before)
    IN [k \in 1..Len(earlier) |-> earlier[k].total]

\* The last n elements of a sequence, or all of it.
LastN(s, n) == IF Len(s) <= n THEN s ELSE SubSeq(s, Len(s) - n + 1, Len(s))

\* The category has a total in week wk, at least 2 earlier weeks, and the
\* total is more than 3 times the median of its up to 8 preceding totals.
SpikeExpected(rs, cat, wk) ==
    LET earlier == EarlierTotals(rs, cat, wk)
        total == SumSeq(WeekCatAmounts(rs, wk, cat))
    IN /\ cat \in Range(WeekCats(rs, wk))
       /\ Len(earlier) >= 2
       /\ 2 * total > 3 * Median2(LastN(earlier, 8))

\* C22: after a scan there is a velocity_spike alert for a week and category
\* exactly when the category has at least 2 earlier weeks and its total of
\* the week exceeds 3 times the median of its up to 8 preceding weekly
\* totals, also for a category with 3 weeks in all or a preceding median
\* of 0.
C22_VelocitySpike ==
    fraudPc = "done" =>
        \A wk \in Range(sorted_weeks(fraudRows)), cat \in Range(CatOrder(fraudRows)) :
            AlertsFor("velocity_spike", wk, cat) # {}
                <=> SpikeExpected(fraudRows, cat, wk)

\* The week has zero subscription revenue, at least 4 weeks precede it, and
\* its expenses exceed the median weekly expense of the weeks before it.
ZeroRevenueExpected(rs, wk) ==
    LET wks == sorted_weeks(rs)
        Before(w) == w < wk
        earlier == SelectSeq(wks, Before)
        history_expense == [k \in 1..Len(earlier) |-> WeekExpense(rs, earlier[k])]
    IN /\ SumSeq(WeekCatAmounts(rs, wk, "subscription_revenue")) = 0
       /\ Len(earlier) >= 4
       /\ 2 * WeekExpense(rs, wk) > Median2(history_expense)

\* C23: after a scan there is a zero_revenue_week alert for a week exactly
\* when the week has zero subscription revenue, at least 4 weeks precede it
\* and its expenses exceed the median weekly expense of those weeks; the
\* weeks after it play no part.
C23_ZeroRevenueWeek ==
    fraudPc = "done" =>
        \A wk \in Range(sorted_weeks(fraudRows)) :
            AlertsFor("zero_revenue_week", wk, "subscription_revenue") # {}
                <=> ZeroRevenueExpected(fraudRows, wk)

\* The Monday-start weeks in which a customer has a subscription_revenue row.
ActiveWeeks(rs, cid) ==
    LET sub == CustomerSubRows(rs, cid)
    IN {_week_of(sub[i].date) : i \in 1..Len(sub)}

\* C24: weeks_active of every profile is the number of distinct Monday-start
\* weeks with a subscription_revenue row of the customer, and
\* avg_weekly_revenue is total_revenue divided by that number (to the cent).
C24_WeeksActive ==
    custPc = "done" =>
        \A i \in 1..Len(profiles) :
            LET weeks == Cardinality(ActiveWeeks(custRows, profiles[i].customer_id))
                total == profiles[i].total_revenue
            IN /\ profiles[i].weeks_active = weeks
               /\ profiles[i].avg_weekly_revenue =
                     IF total >= 0 THEN RoundRatio(total, weeks, 1)
                     ELSE -RoundRatio(-total, weeks, 1)

\* The total of a week's rows of one category.
WeekTotal(rs, wk, cat) == SumSeq(WeekCatAmounts(rs, wk, cat))

\* C25: after a scan there is a contractor_ratio alert for a week exactly
\* when the week's salary total is not zero and the absolute contractor
\* total exceeds 2.5 times the absolute salary total; there is one such
\* alert at most and its severity is LOW.
C25_ContractorRatio ==
    fraudPc = "done" =>
        \A wk \in Range(sorted_weeks(fraudRows)) :
            LET hits == AlertsFor("contractor_ratio", wk, "contractor_expense")
                salary == WeekTotal(fraudRows, wk, "salary_expense")
                contractor == WeekTotal(fraudRows, wk, "contractor_expense")
            IN /\ hits # {} <=> (salary # 0 /\ 2 * Abs(contractor) > 5 * Abs(salary))
               /\ Cardinality(hits) <= 1
               /\ \A i \in hits : alerts[i].severity = "LOW"

\* A scan of two weeks: contractors 3000.00 against salaries 1000.00, flagged
\* LOW, then contractors 3000.00 and no salary, not flagged.
C25_Witness ==
    /\ fraudPc = "done"
    /\ sorted_weeks(fraudRows) = <<0, 7>>
    /\ WeekTotal(fraudRows, 0, "contractor_expense") = 300000
    /\ WeekTotal(fraudRows, 0, "salary_expense") = 100000
    /\ WeekTotal(fraudRows, 7, "contractor_expense") = 300000
    /\ WeekCatAmounts(fraudRows, 7, "salary_expense") = <<>>
    /\ \E i \in AlertsFor("contractor_ratio", 0, "contractor_expense") :
          alerts[i].severity = "LOW"
    /\ AlertsFor("contractor_ratio", 7, "contractor_expense") = {}

\* C26: as long as no crossing is recorded the cash of the path has been
\* above 0 in every week so far; the week that records the crossing is one
\* with cash at or below 0 and records 7 times its index; a recorded
\* crossing is not changed by any later week, whether the cash rises above
\* 0 or falls again; and the day of the path is the recorded crossing, or
\* 54 x 7 + 1 = 379 when none was recorded.
C26_FirstCrossingDay ==
    /\ []((pathPc = "loop" /\ exhausted_at_days = <<>>) => pathCash > 0)
    /\ [](pathPc = "done" =>
             pathDays = IF exhausted_at_days = <<>> THEN <<379>>
                        ELSE exhausted_at_days)
    /\ [][/\ exhausted_at_days # <<>> => exhausted_at_days' = exhausted_at_days
          /\ (exhausted_at_days = <<>> /\ exhausted_at_days' # <<>>) =>
                /\ pathCash' <= 0
                /\ exhausted_at_days' = <<7 * pathWeek'>>]_vars

\* A path that reached 0 in week 1 and ends its 54 weeks with cash above 0,
\* recorded as day 7.
C26_Witness ==
    /\ pathPc = "done"
    /\ pathWeek = 54
    /\ pathDays = <<7>>
    /\ pathCash > 0

\* C27: in every non-empty survival result the three ruin probabilities (in
\* 1e-4 units) lie in [0, 1] and do not decrease with the horizon.
C27_RuinProbabilitiesOrdered ==
    (survPc \in {"done", "redone"} /\ survLast.result # <<>>) =>
        LET r == survLast.result
        IN /\ 0 <= r.probability_ruin_90d
           /\ r.probability_ruin_90d <= r.probability_ruin_180d
           /\ r.probability_ruin_180d <= r.probability_ruin_365d
           /\ r.probability_ruin_365d <= 10000

\* A result whose paths reach zero cash in different horizons: none within
\* 90 days, some but not all within 180, more within 365.
C27_Witness ==
    /\ survPc \in {"done", "redone"}
    /\ survLast.result # <<>>
    /\ survLast.result.probability_ruin_90d < survLast.result.probability_ruin_180d
    /\ survLast.result.probability_ruin_180d < survLast.result.probability_ruin_365d

\* The projected_mrr_6mo of the scenario with this name.
ProjectedOf(name) ==
    LET k == CHOOSE i \in 1..Len(scenarios) : scenarios[i].scenario = name
    IN scenarios[k].projected_mrr_6mo

\* Projection a is above projection b whatever the values within their
\* bounds.
ProjectedAbove(a, b) == ~b.capped /\ a.lo > b.hi

\* C28: for every history, also one whose trailing mrr growth is negative,
\* the projection of bear is not above the one of base, and the one of base
\* not above the one of bull.
C28_ProjectionOrdering ==
    (scenPc = "done" /\ history # <<>>) =>
        /\ ~ProjectedAbove(ProjectedOf("bear"), ProjectedOf("base"))
        /\ ~ProjectedAbove(ProjectedOf("base"), ProjectedOf("bull"))

\* C29: a delete is executed only when every derived collection has been
\* computed; a run that failed on its guards or in a computation has
\* executed no delete and leaves what was stored for the run id as it was
\* when the run began.
C29_NoDeleteBeforeComputed ==
    /\ (txPc > 0 /\ txDeleted) =>
           \A i \in 1..Len(RunStatements) :
               RunStatements[i].op = "compute" => i < txPc
    /\ (txPc = 0 /\ txOutcome \in {"ValueError", "raised"}) =>
           /\ ~txDeleted
           /\ txStored = txBefore

\* A computation raised in a run for a run id that has entities of an
\* earlier run over fewer rows: they are still stored.
C29_Witness ==
    /\ txPc = 0
    /\ txOutcome = "raised"
    /\ txRaw = 2
    /\ txStored = [t \in Tables |-> 1]

\* The edges a step of the workflow may follow.
EdgesAsClaimed ==
    LET secondPassFailed ==
            task = "analyze" /\ startedWith = 0 /\ node = "ingestion" /\ passes = 2
                /\ needs_correction' = <<TRUE>>
    IN  /\ secondPassFailed => (node' = "failure")
        /\ (node = "failure") => (node' = "END" /\ status' = <<"failed">>)
        /\ (node' = "persist_raw") => (node = "ingestion" /\ needs_correction' = <<FALSE>>)
        /\ (node' = "analysis") => (node = "persist_raw")

\* C30: every analyze workflow ends, within the recursion limit; one that
\* started with correction_attempts = 0 makes at most 2 correction passes
\* and goes to the failure node exactly when the ingestion after the second
\* pass still needs correction; the failure node leaves status "failed";
\* persist_raw is entered only from an ingestion step whose result needs no
\* correction, and analysis only from persist_raw.
C30_AnalyzeTerminates ==
    /\ [](task = "analyze" => steps < recursion_limit)
    /\ []((task = "analyze" /\ startedWith = 0) =>
            /\ passes <= 2
            /\ (node = "failure" => (passes = 2 /\ needs_correction = <<TRUE>>)))
    /\ [][EdgesAsClaimed]_vars
    /\ ((task = "analyze" /\ node = "router") ~> (node \in {"END", "raised"}))

\* An analyze workflow on a thread without saved attempts has ended in the
\* failure node after two correction passes.
C30_Witness ==
    /\ task = "analyze"
    /\ startedWith = 0
    /\ node = "END"
    /\ passes = 2
    /\ status = <<"failed">>
    /\ steps = 7

=============================================================================
